---------------------------- MODULE Spec2Model ----------------------------
(***************************************************************************)
(* A model of relrest / restjoint: the role-based authorization engine of  *)
(* relrest.Service (add_roles, authorize), the URI codec                   *)
(* (restjoint.util.uri.encode / decode), and the resource operations of    *)
(* relrest.Service (create, read, update, delete, set_property,            *)
(* serialize_model) over the catalog of the example application.           *)
(*                                                                         *)
(* Strings.  A Python str is modelled as a sequence of lexemes.  A lexeme  *)
(* is either one delimiter character ("/", ".", "=", "&", "?", ",", "+",   *)
(* " ") or an identifier that contains no delimiter ("tag", "eq", ...).    *)
(* The codec looks at a string only through its delimiters, through its    *)
(* emptiness and through comparisons of whole components, so an            *)
(* identifier never needs to be opened.  The empty str is <<>>.  Python's  *)
(* None is the one-lexeme sequence None, whose lexeme occurs in no str;    *)
(* formatting None into a str gives the str "None".                        *)
(* The alphabet holds no "%", "#", ";" or ":" before the first "/", so on  *)
(* it urllib's unquote is the identity and urlparse only separates the     *)
(* path from the query at the first "?".                                   *)
(*                                                                         *)
(* Operation tokens of a role description are sequences of characters,     *)
(* because add_roles looks at their first and second character.            *)
(***************************************************************************)
EXTENDS Integers, Sequences, FiniteSets, TLC

(***************************************************************************)
(* Python values and str primitives                                        *)
(***************************************************************************)
None == <<"<None>">>

\* str(None), as produced by an f-string
NoneStr == <<"None">>

\* f"{x}": None formats as "None", a str as itself
Format(x) == IF x = None THEN NoneStr ELSE x

\* Python truthiness of an Optional[str]
Truthy(x) == x # None /\ x # <<>>

\* x or y
Or(x, y) == IF Truthy(x) THEN x ELSE y

Range(s) == {s[i] : i \in 1..Len(s)}

\* s.split(sep): always at least one part
Split(s, sep) ==
    LET RECURSIVE go(_, _, _)
        go(i, cur, acc) ==
            IF i > Len(s) THEN Append(acc, cur)
            ELSE IF s[i] = sep THEN go(i + 1, <<>>, Append(acc, cur))
            ELSE go(i + 1, Append(cur, s[i]), acc)
    IN  go(1, <<>>, <<>>)

\* s.split(sep, 1): one part, or the parts before and after the first sep
Split1(s, sep) ==
    LET hits == {i \in 1..Len(s) : s[i] = sep}
    IN  IF hits = {} THEN <<s>>
        ELSE LET k == CHOOSE i \in hits : \A j \in hits : i <= j
             IN  <<SubSeq(s, 1, k - 1), SubSeq(s, k + 1, Len(s))>>

\* sep.join(parts)
Join(parts, sep) ==
    LET RECURSIVE go(_)
        go(i) == IF i > Len(parts) THEN <<>>
                 ELSE IF i = Len(parts) THEN parts[i]
                 ELSE parts[i] \o sep \o go(i + 1)
    IN  go(1)

\* s.rstrip(c)
RStrip(s, c) ==
    LET keep == {i \in 1..Len(s) : s[i] # c}
    IN  IF keep = {} THEN <<>>
        ELSE SubSeq(s, 1, CHOOSE i \in keep : \A j \in keep : j <= i)

\* s.lstrip(c)
LStrip(s, c) ==
    LET keep == {i \in 1..Len(s) : s[i] # c}
    IN  IF keep = {} THEN <<>>
        ELSE SubSeq(s, CHOOSE i \in keep : \A j \in keep : i <= j, Len(s))

\* s.strip(c)
Strip(s, c) == RStrip(LStrip(s, c), c)

\* s.startswith(c)
StartsWith(s, c) == Len(s) > 0 /\ s[1] = c

\* s.replace('+', ' ')
PlusToSpace(s) == [i \in 1..Len(s) |-> IF s[i] = "+" THEN " " ELSE s[i]]

\* a list padded with '' to length 3: [*l, *[''] * (3 - len(l))]
Pad3(l) == IF Len(l) >= 3 THEN l ELSE l \o [i \in 1..(3 - Len(l)) |-> <<>>]

\* [x for x in l if p]: the subsequence of the non-empty strings
NonEmpty(l) == SelectSeq(l, LAMBDA x : x # <<>>)


(***************************************************************************)
(* restjoint.util.uri: the URI codec                                       *)
(***************************************************************************)
Ok(v) == [err |-> "none", val |-> v]

Raise(e) == [err |-> e, val |-> None]

\* field 'resource.field' of the path; more than 2 components is refused
field__resource_field(rf_description, default_resource) ==
    LET rf == Split(rf_description, ".")
    IN  IF rf_description = <<>> THEN Raise("TypeError")
        ELSE IF Len(rf) = 2 THEN Ok(<<Or(rf[1], default_resource), rf[2]>>)
        ELSE IF Len(rf) > 2 THEN Raise("ValueError")
        ELSE Ok(<<Or(None, default_resource), rf[1]>>)

\* join node 'resource[.field[.comparator]]': padded to 3 and unpacked by position.
\* The padding never raises; the unpacking of more than 3 components does.
joinpath_node__resource_field_comparator(rfc_description, default_resource, default_field, default_comparator) ==
    LET rfc == Pad3(Split(rfc_description, "."))
    IN  IF Len(rfc) # 3 THEN Raise("ValueError")
        ELSE Ok(<<Or(rfc[1], default_resource),
                  Or(rfc[2], default_field),
                  Or(rfc[3], default_comparator)>>)

\* faulty variant: two components are read as (resource, field)
filter__resource_field(rfc_description, default_resource, default_field, default_comparator) ==
    LET rfc == Split(rfc_description, ".")
    IN  IF Len(rfc) > 3 THEN Raise("NameError")
        ELSE IF Len(rfc) = 1
        THEN Ok(<<Or(None, default_resource),
                  Or(rfc[1], default_field),
                  Or(None, default_comparator)>>)
        ELSE Ok(<<Or(rfc[1], default_resource),
                  Or(rfc[2], default_field),
                  Or(IF Len(rfc) = 3 THEN rfc[3] ELSE None, default_comparator)>>)

\* filter '[[resource.]field[.comparator]]': 3 components are (resource, field,
\* comparator), 2 are (field, comparator), 1 is (field).  With more than 3 the
\* message of the ValueError reads the undefined name `description`: the
\* NameError of that read is what leaves the function.
filter__resource_field_comparator(rfc_description, default_resource, default_field, default_comparator) ==
    LET rfc == Split(rfc_description, ".")
    IN  IF Len(rfc) = 3
        THEN Ok(<<Or(rfc[1], default_resource),
                  Or(rfc[2], default_field),
                  Or(rfc[3], default_comparator)>>)
        ELSE IF Len(rfc) > 3 THEN Raise("NameError")
        ELSE IF Len(rfc) = 2
        THEN Ok(<<Or(None, default_resource),
                  Or(rfc[1], default_field),
                  Or(rfc[2], default_comparator)>>)
        ELSE Ok(<<Or(None, default_resource),
                  Or(rfc[1], default_field),
                  Or(None, default_comparator)>>)

\* urllib.parse.parse_qsl(qs, keep_blank_values=True): the (name, value) pairs
\* of the "&"-separated query; empty pairs are skipped, a pair without "=" has
\* the value '', "+" reads as a space in names and values
parse_qsl(qs) ==
    LET pairs == NonEmpty(Split(qs, "&"))
        nv(p) == LET s == Split1(p, "=")
                 IN  <<PlusToSpace(s[1]),
                       IF Len(s) = 2 THEN PlusToSpace(s[2]) ELSE <<>>>>
    IN  [i \in 1..Len(pairs) |-> nv(pairs[i])]

\* QUERY[arg] = value on an insertion-ordered dict kept as a list of pairs
DictSet(d, k, v) ==
    IF \E i \in 1..Len(d) : d[i][1] = k
    THEN [i \in 1..Len(d) |-> IF d[i][1] = k THEN <<k, v>> ELSE d[i]]
    ELSE Append(d, <<k, v>>)

\* the QUERY dict of decode: a join-path pair is keyed by "arg=value"
QueryDict(qs) ==
    LET pairs == parse_qsl(qs)
        RECURSIVE go(_, _)
        go(i, d) ==
            IF i > Len(pairs) THEN d
            ELSE IF StartsWith(pairs[i][1], "/")
            THEN go(i + 1, DictSet(d, pairs[i][1] \o <<"=">> \o pairs[i][2], <<>>))
            ELSE go(i + 1, DictSet(d, pairs[i][1], pairs[i][2]))
    IN  go(1, <<>>)

\* the fields of the path: the first descriptor that is refused raises
DecodeFields(fields_csv, default_resource) ==
    LET rfs == NonEmpty(Split(fields_csv, ","))
        RECURSIVE go(_, _)
        go(i, acc) ==
            IF i > Len(rfs) THEN Ok(acc)
            ELSE LET f == field__resource_field(rfs[i], default_resource)
                 IN  IF f.err # "none" THEN f ELSE go(i + 1, Append(acc, f.val))
    IN  go(1, <<>>)

\* one join-path argument '/node/node...' into its list of nodes
DecodeJoinpath(arg, default_resource, default_field, default_comparator) ==
    LET nodes == Split(Strip(arg, "/"), "/")
        RECURSIVE go(_, _)
        go(i, acc) ==
            IF i > Len(nodes) THEN Ok(acc)
            ELSE LET parts == SubSeq(Append(Split(nodes[i], "="), <<>>), 1, 2)
                     rfc == joinpath_node__resource_field_comparator(
                                parts[1], default_resource, default_field,
                                default_comparator)
                 IN  IF rfc.err # "none" THEN rfc
                     ELSE go(i + 1, Append(acc, Append(rfc.val, parts[2])))
    IN  go(1, <<>>)

\* the arguments of the query string, in the order of the QUERY dict
DecodeQuery(query, default_resource, default_field, default_comparator) ==
    LET RECURSIVE go(_, _)
        go(i, acc) ==
            IF i > Len(query) THEN Ok(acc)
            ELSE LET arg == query[i][1]
                     value == query[i][2]
                 IN  IF StartsWith(arg, "/")
                     THEN LET jp == DecodeJoinpath(arg, default_resource,
                                                   default_field, default_comparator)
                          IN  IF jp.err # "none" THEN jp
                              ELSE go(i + 1, [acc EXCEPT !.joinpaths = Append(@, jp.val)])
                     ELSE IF arg = <<"_limit">>
                     THEN go(i + 1, [acc EXCEPT !.limit = value])
                     ELSE LET f == filter__resource_field_comparator(
                                       arg, default_resource, default_field,
                                       default_comparator)
                          IN  IF f.err # "none" THEN f
                              ELSE go(i + 1, [acc EXCEPT
                                       !.filters = Append(@, Append(f.val, value))])
    IN  go(1, [joinpaths |-> <<>>, filters |-> <<>>, limit |-> None])

\* urllib.parse.urlparse(uri): path and query (see the note on the alphabet)
UrlParse(uri) ==
    LET s == Split1(uri, "?")
    IN  [path |-> s[1], query |-> IF Len(s) = 2 THEN s[2] ELSE <<>>]

decode(uri, default_resource, default_field, default_comparator) ==
    LET parsed_uri == UrlParse(uri)
        path == Pad3(Split(Strip(parsed_uri.path, "/"), "/"))
    IN  IF Len(path) # 3 THEN Raise("ValueError")
        ELSE LET fields == DecodeFields(path[3], default_resource)
                 q == DecodeQuery(QueryDict(parsed_uri.query), default_resource,
                                  default_field, default_comparator)
             IN  IF fields.err # "none" THEN fields
                 ELSE IF q.err # "none" THEN q
                 ELSE Ok([resource |-> path[1],
                          id |-> path[2],
                          fields |-> fields.val,
                          joinpaths |-> q.val.joinpaths,
                          filters |-> q.val.filters,
                          limit |-> q.val.limit])

\* f"{resource}.{field}.{comparator}={value}"
FilterStr(f) ==
    Format(f[1]) \o <<".">> \o Format(f[2]) \o <<".">> \o Format(f[3])
        \o <<"=">> \o Format(f[4])

\* ''.join(f"/{resource}.{field}.{comparator}={value}" for each node)
JoinpathStr(joinpath) ==
    Join([i \in 1..Len(joinpath) |-> <<"/">> \o FilterStr(joinpath[i])], <<>>)

\* '.'.join of the components of a field that are not None
FieldStr(f) ==
    Join(SelectSeq(<<f[1], f[2]>>, LAMBDA x : x # None), <<".">>)

\* the set(...) of the filter and of the join-path declarations
FilterSet(request) == {FilterStr(f) : f \in Range(request.filters)}

JoinpathSet(request) == {JoinpathStr(j) : j \in Range(request.joinpaths)}

\* the orders in which a Python set may be iterated
Orderings(S) ==
    {o \in [1..Cardinality(S) -> S] : \A i, j \in DOMAIN o : o[i] = o[j] => i = j}

\* encode(**request), with the iteration orders of its two sets
encode(request, filters_order, joinpaths_order) ==
    LET fields == Join([i \in 1..Len(request.fields) |-> FieldStr(request.fields[i])],
                       <<",">>)
        limit == IF request.limit # None
                 THEN << <<"_limit">> \o <<"=">> \o request.limit >>
                 ELSE <<>>
        query == Join(filters_order \o joinpaths_order \o limit, <<"&">>)
    IN  IF request.resource = None \/ request.id = None THEN Raise("TypeError")
        ELSE LET path == RStrip(Join(<<request.resource, request.id, fields>>, <<"/">>), "/")
             IN  Ok(IF query # <<>> THEN path \o <<"?">> \o query ELSE path)


(***************************************************************************)
(* relrest.Service: the rights table, add_roles and authorize              *)
(*                                                                         *)
(* self.rights is a defaultdict of defaultdict(set).  The model keeps the  *)
(* outer dict with its keys (authorize tests its emptiness, and reading a  *)
(* missing role creates the key); rights[role] is the set of the           *)
(* <<resource, op>> held: an inner key that was never written reads as the *)
(* empty set, and nothing observes whether it is present.                  *)
(***************************************************************************)
reserved_resources == {<<"+">>, <<"-">>}

\* the operation letters kept in the rights table
crud == {"c", "r", "u", "d"}

\* the operation names that Service passes to authorize
OpCreate == <<"c", "r", "e", "a", "t", "e">>

OpRead == <<"r", "e", "a", "d">>

OpUpdate == <<"u", "p", "d", "a", "t", "e">>

OpDelete == <<"d", "e", "l", "e", "t", "e">>

\* self.model.keys(): the resources of the catalog (src/example/data.py)
ModelKeys == << <<"event">>, <<"tag">> >>

\* c.lower() on the characters of the tokens
Lower(c) ==
    CASE c = "C" -> "c" [] c = "R" -> "r" [] c = "U" -> "u" [] c = "D" -> "d"
      [] OTHER -> c

\* the elements of the lists of a list, in order: what nested for loops draw
Concat(lists) ==
    LET RECURSIVE go(_)
        go(i) == IF i > Len(lists) THEN <<>> ELSE lists[i] \o go(i + 1)
    IN  go(1)

\* faulty variant: the resource key "*" is kept as a resource name
ResourcesExpanded_literal(resource) == <<resource>>

\* resource "*" expands to every resource of the catalog
ResourcesExpanded(resource) ==
    IF resource = <<"*">> THEN ModelKeys ELSE <<resource>>

\* "*" and "-*" expand to the four letters, any other token is kept
OperationsExpanded(operation) ==
    IF operation = <<"*">> THEN << <<"c">>, <<"r">>, <<"u">>, <<"d">> >>
    ELSE IF operation = <<"-", "*">>
    THEN << <<"-", "c">>, <<"-", "r">>, <<"-", "u">>, <<"-", "d">> >>
    ELSE <<operation>>

\* the (role, resource, expanded token) triples in the order of the nested for
\* loops
ExpandedTokens(roles_descriptions) ==
    LET OfOperation(role, res, operation) ==
            LET oe == OperationsExpanded(operation)
            IN  [i \in 1..Len(oe) |-> <<role, res, oe[i]>>]
        OfResource(role, res, operations) ==
            Concat([i \in 1..Len(operations) |-> OfOperation(role, res, operations[i])])
        OfKey(role, ro) ==
            LET resources_expanded == ResourcesExpanded(ro[1])
            IN  Concat([i \in 1..Len(resources_expanded) |->
                          OfResource(role, resources_expanded[i], ro[2])])
        OfRole(rd) == Concat([i \in 1..Len(rd[2]) |-> OfKey(rd[1], rd[2][i])])
    IN  Concat([i \in 1..Len(roles_descriptions) |-> OfRole(roles_descriptions[i])])

\* discard and op of one expanded token: indexing an empty token or a bare "-"
\* raises IndexError, a first letter outside "crud" raises ValueError
ValidateOperation(operation_expanded) ==
    IF Len(operation_expanded) = 0 THEN Raise("IndexError")
    ELSE LET discard == operation_expanded[1] = "-"
         IN  IF discard /\ Len(operation_expanded) < 2 THEN Raise("IndexError")
             ELSE LET op == Lower(IF discard THEN operation_expanded[2]
                                  ELSE operation_expanded[1])
                  IN  IF op \notin crud THEN Raise("ValueError")
                      ELSE Ok(<<op, discard>>)

\* roles_expanded: every token is validated before anything is applied
RolesExpanded(roles_descriptions) ==
    LET toks == ExpandedTokens(roles_descriptions)
        RECURSIVE go(_, _)
        go(i, acc) ==
            IF i > Len(toks) THEN Ok(acc)
            ELSE LET v == ValidateOperation(toks[i][3])
                 IN  IF v.err # "none" THEN v
                     ELSE go(i + 1, Append(acc,
                              <<toks[i][1], toks[i][2], v.val[1], v.val[2]>>))
    IN  go(1, <<>>)

\* self.rights[role]: reading a missing role creates it
Touch(rts, role) ==
    IF role \in DOMAIN rts THEN rts
    ELSE [r \in DOMAIN rts \cup {role} |-> IF r = role THEN {} ELSE rts[r]]

\* the operations a role holds on a resource
Held(rts, role, resource) ==
    IF role \in DOMAIN rts THEN {op \in crud : <<resource, op>> \in rts[role]}
    ELSE {}

\* faulty variant: a revocation discards nothing
ApplyRight_keeps(rts, e) ==
    IF e[4] THEN Touch(rts, e[1])
    ELSE [Touch(rts, e[1]) EXCEPT ![e[1]] = @ \cup {<<e[2], e[3]>>}]

\* self.rights[role][resource].discard(op) / .add(op)
ApplyRight(rts, e) ==
    IF e[4] THEN [Touch(rts, e[1]) EXCEPT ![e[1]] = @ \ {<<e[2], e[3]>>}]
    ELSE [Touch(rts, e[1]) EXCEPT ![e[1]] = @ \cup {<<e[2], e[3]>>}]

\* faulty variant: every grant is applied before every revocation
ApplyRights_grants_then_revocations(rts, roles_expanded) ==
    LET ordered == SelectSeq(roles_expanded, LAMBDA e : ~e[4])
                   \o SelectSeq(roles_expanded, LAMBDA e : e[4])
        RECURSIVE go(_, _)
        go(i, acc) ==
            IF i > Len(ordered) THEN acc
            ELSE LET e == ordered[i]
                     t == Touch(acc, e[1])
                 IN  go(i + 1, [t EXCEPT ![e[1]] =
                                  IF e[4] THEN @ \ {<<e[2], e[3]>>}
                                  ELSE @ \cup {<<e[2], e[3]>>}])
    IN  go(1, rts)

\* the second loop of add_roles: the expanded rights are applied in order
ApplyRights(rts, roles_expanded) ==
    LET RECURSIVE go(_, _)
        go(i, acc) == IF i > Len(roles_expanded) THEN acc
                      ELSE go(i + 1, ApplyRight(acc, roles_expanded[i]))
    IN  go(1, rts)

\* faulty variant: each token is applied as soon as it is validated, so the tokens
\* before an invalid one stay applied
add_roles_eager(rts, roles_descriptions) ==
    LET toks == ExpandedTokens(roles_descriptions)
        RECURSIVE go(_, _)
        go(i, acc) ==
            IF i > Len(toks) THEN [err |-> "none", rights |-> acc]
            ELSE LET v == ValidateOperation(toks[i][3])
                 IN  IF v.err # "none" THEN [err |-> v.err, rights |-> acc]
                     ELSE LET t == Touch(acc, toks[i][1])
                              right == <<toks[i][2], v.val[1]>>
                          IN  go(i + 1, [t EXCEPT ![toks[i][1]] =
                                           IF v.val[2] THEN @ \ {right}
                                           ELSE @ \cup {right}])
    IN  go(1, rts)

\* add_roles(**roles_descriptions): the error raised and the rights table after
add_roles(rts, roles_descriptions) ==
    LET roles_expanded == RolesExpanded(roles_descriptions)
    IN  IF roles_expanded.err # "none"
        THEN [err |-> roles_expanded.err, rights |-> rts]
        ELSE [err |-> "none", rights |-> ApplyRights(rts, roles_expanded.val)]

\* resources_involved of authorize
ResourcesInvolved(request) ==
    (IF request.resource \notin reserved_resources
     THEN <<request.resource>> ELSE <<>>)
    \o Concat([i \in 1..Len(request.joinpaths) |->
                 [j \in 1..Len(request.joinpaths[i]) |-> request.joinpaths[i][j][1]]])

\* the (resource_involved, for_role) pairs in the order any() draws them
AuthorizePairs(request, for_roles) ==
    LET resources_involved == ResourcesInvolved(request)
    IN  Concat([i \in 1..Len(resources_involved) |->
                  [j \in 1..Len(for_roles) |-> <<resources_involved[i], for_roles[j]>>]])

\* faulty variant: every involved resource must permit the operation
authorize_every_resource(rts, operation, request, for_roles) ==
    IF DOMAIN rts = {} THEN [err |-> "none", rights |-> rts]
    ELSE LET roles == <<"*">> \o for_roles
             involved == ResourcesInvolved(request)
             allowed == \A i \in 1..Len(involved) : \E j \in 1..Len(roles) :
                            operation[1] \in Held(rts, roles[j], involved[i])
             RECURSIVE touch(_, _)
             touch(j, acc) == IF j > Len(roles) \/ involved = <<>> THEN acc
                              ELSE touch(j + 1, Touch(acc, roles[j]))
         IN  [err |-> IF allowed THEN "none" ELSE "AssertionError",
              rights |-> touch(1, rts)]

\* faulty variant: a table in which no role holds any operation counts as disabled
authorize_no_right_permits(rts, operation, request, for_roles) ==
    IF \A role \in DOMAIN rts : rts[role] = {}
    THEN [err |-> "none", rights |-> rts]
    ELSE LET pairs == AuthorizePairs(request, <<"*">> \o for_roles)
             allowed == \E i \in 1..Len(pairs) :
                            operation[1] \in Held(rts, pairs[i][2], pairs[i][1])
         IN  [err |-> IF allowed THEN "none" ELSE "AssertionError",
              rights |-> rts]

\* faulty variant: the role check is never made
authorize_unchecked(rts, operation, request, for_roles) == [err |-> "none", rights |-> rts]

\* authorize(operation, request, for_roles): AssertionError when not allowed.
\* any() stops at the first pair that holds the operation; every pair it
\* draws reads self.rights[for_role].
authorize(rts, operation, request, for_roles) ==
    IF DOMAIN rts = {} THEN [err |-> "none", rights |-> rts]
    ELSE LET op == operation[1]
             pairs == AuthorizePairs(request, <<"*">> \o for_roles)
             hits == {i \in 1..Len(pairs) : op \in Held(rts, pairs[i][2], pairs[i][1])}
             allowed == hits # {}
             drawn == IF allowed THEN CHOOSE i \in hits : \A j \in hits : i <= j
                      ELSE Len(pairs)
             RECURSIVE touch(_, _)
             touch(i, acc) == IF i > drawn THEN acc
                              ELSE touch(i + 1, Touch(acc, pairs[i][2]))
         IN  [err |-> IF allowed THEN "none" ELSE "AssertionError",
              rights |-> touch(1, rts)]


(***************************************************************************)
(* The inputs                                                              *)
(***************************************************************************)
\* the number of add_roles calls that succeed in one run (the constructor's
\* roles are the first call)
MaxCalls == 2

\* the conversions of one codec run: request, uri, request, uri, request
MaxTrail == 5

\* the "."-separated components of a descriptor of an input URI
MaxComponents == 4

Star == <<"*">>

Event == <<"event">>

Tag == <<"tag">>

\* the token "-" + operation
Minus(operation) == <<"-">> \o operation

\* a role description {role: {resource: operations}}: the dicts are lists of
\* pairs in the order they are written
OneRole(role, resources) == << <<role, resources>> >>

StarRead == OneRole("*", << <<Star, <<OpRead>> >> >>)

GrantDelete == OneRole("user", << <<Event, <<OpDelete>> >> >>)

RevokeDelete == OneRole("user", << <<Event, <<Minus(OpDelete)>> >> >>)

RevokeThenGrant == OneRole("user", << <<Event, <<Minus(OpDelete), OpDelete>> >> >>)

AllButDelete == OneRole("user", << <<Event, <<Star, Minus(OpDelete)>> >> >>)

DeleteThenAll == OneRole("user", << <<Event, <<Minus(OpDelete), Star>> >> >>)

NoneThenRead == OneRole("*", << <<Tag, <<Minus(Star), OpRead>> >> >>)

StarKeyFirst ==
    OneRole("user", << <<Star, <<Minus(Star)>> >>, <<Event, <<OpRead>> >> >>)

StarKeyLast ==
    OneRole("user", << <<Event, <<OpRead>> >>, <<Star, <<Minus(Star)>> >> >>)

NoResource == OneRole("user", <<>>)

UpdateThenInvalid == OneRole("user", << <<Tag, <<OpUpdate, <<"x">> >> >> >>)

Count == OneRole("user", << <<Tag, << <<"c", "o", "u", "n", "t">> >> >> >>)

ReadThenDash ==
    OneRole("user", << <<Tag, << <<"R", "e", "a", "d">> >> >>,
                       <<Event, << <<"-">> >> >> >>)

AdminThenEmpty ==
    OneRole("admin", << <<Star, <<Star>> >> >>)
    \o OneRole("user", << <<Tag, << <<>> >> >> >>)

\* the role descriptions given to a service that also authorizes requests
ServiceRoleDescriptions ==
    { NoResource, StarRead, GrantDelete, RevokeDelete, NoneThenRead,
      UpdateThenInvalid }

\* the role descriptions given to add_roles
RoleDescriptions ==
    ServiceRoleDescriptions \cup
    { <<>>, RevokeThenGrant, AllButDelete, DeleteThenAll, StarKeyFirst,
      StarKeyLast, Count, ReadThenDash, AdminThenEmpty }

Node(resource) == <<resource, <<"id">>, <<"eq">>, <<>> >>

\* the requests handed to authorize: what it reads is resource and joinpaths
AuthRequests ==
    { [resource |-> r, joinpaths |-> j] :
        r \in {Event, Tag, <<"+">>},
        j \in { <<>>, << <<Node(Tag)>> >>, << <<Node(Tag), Node(Event)>> >> } }

Operations == {OpCreate, OpRead, OpUpdate, OpDelete}

RoleLists == { <<>>, <<"user">> }

NoRequest == [resource |-> <<>>, joinpaths |-> <<>>]

(***************************************************************************)
(* The inputs of the codec                                                 *)
(***************************************************************************)
Name == <<"name">>

\* the components of the descriptors of an input URI
Components == { <<>>, Tag, Name, <<"like">> }

\* the lists of 1..n components
ComponentLists(n) == UNION {[1..k -> Components] : k \in 1..n}

\* an input URI: `segments` path segments (resource, id, fields, one more),
\* the fields and the arguments of the query, every descriptor as the list of
\* its components.  An argument is a filter, a one-node join-path or a limit.
UriArgs ==
    [kind : {"filter", "joinpath"}, rfc : ComponentLists(MaxComponents),
     value : {<<"1">>}]
    \cup [kind : {"filter", "joinpath"}, rfc : ComponentLists(2),
          value : {<<>>, <<"x", "+", "1">>}]
    \cup [kind : {"limit"}, rfc : {<< <<"_limit">> >>}, value : {<<"3">>}]

UriFields ==
    { <<>>, << <<Name>> >>, << <<Tag, Name>>, <<<<":count">>>> >>,
      << <<Tag, Name, Name>> >>, << <<Name>>, <<Tag, <<>>, Name>> >> }

UriInputs ==
    [resource : {Tag}, id : {<<"1">>}, segments : {1, 2},
     fields : {<<>>}, args : {<<a>> : a \in UriArgs}]
    \cup [resource : {Tag, <<"+">>}, id : {<<>>, <<"+">>}, segments : {3, 4},
          fields : UriFields,
          args : { <<>>,
                   << [kind |-> "filter", rfc |-> <<Name>>, value |-> <<"1">>],
                      [kind |-> "joinpath", rfc |-> <<Tag, <<>>, <<"like">>>>,
                       value |-> <<>>] >>,
                   << [kind |-> "filter", rfc |-> <<Name, <<"like">>, Tag, Tag>>,
                       value |-> <<"1">>] >>,
                   << [kind |-> "joinpath", rfc |-> <<Tag, Tag, Tag, Tag>>,
                       value |-> <<"1">>] >> }]

\* the text of one argument of the query
ArgStr(a) ==
    (IF a.kind = "joinpath" THEN <<"/">> ELSE <<>>)
    \o Join(a.rfc, <<".">>) \o <<"=">> \o a.value

\* the text of an input URI
UriStr(u) ==
    LET fields == Join([i \in 1..Len(u.fields) |-> Join(u.fields[i], <<".">>)],
                       <<",">>)
        path == Join(SubSeq(<<u.resource, u.id, fields, <<"x">> >>, 1, u.segments),
                     <<"/">>)
        query == Join([i \in 1..Len(u.args) |-> ArgStr(u.args[i])], <<"&">>)
    IN  IF u.args = <<>> THEN path ELSE path \o <<"?">> \o query

\* the filters and the join-paths of the input requests
FilterPool ==
    { <<None, Name, <<"eq">>, <<"x">> >>,
      <<<<>>, Name, <<"eq">>, <<"x">> >>,
      <<Tag, Name, <<"like">>, <<"x">> >>,
      <<Tag, Name, <<"like">>, <<"1">> >> }

JoinpathPool ==
    { << Node(Tag) >>,
      << <<Event, <<"id">>, <<"eq">>, <<"1">> >>, <<Tag, Name, <<"like">>, <<"x">> >> >> }

\* the lists of at most 2 elements of S
UpTo2(S) == {<<>>} \cup {<<a>> : a \in S} \cup {<<a, b>> : a \in S, b \in S}

RequestInputs ==
    [resource : {Tag, <<"+">>},
     id : {<<>>, <<"1">>},
     fields : { <<>>, << <<None, Name>>, <<Tag, <<":count">> >> >> },
     joinpaths : UpTo2(JoinpathPool),
     filters : UpTo2(FilterPool),
     limit : {None, <<"3">>}]

(***************************************************************************)
(* The catalog and the store (src/example/data.py)                         *)
(***************************************************************************)
\* the catalog is the part of data.py that the requests of the model name:
\* the columns Event(id, summary) and Tag(id, name)
Scalars(resource) ==
    IF resource = Event THEN {"id", "summary"}
    ELSE IF resource = Tag THEN {"id", "name"}
    ELSE {}

\* the relationships of a model, named after the related resource:
\* Event.tag and Tag.event, many to many
Relationships(resource) ==
    IF resource = Event THEN {"tag"}
    ELSE IF resource = Tag THEN {"event"}
    ELSE {}

\* the Integer columns, whose filter values make_filter casts with int()
IntegerColumns == {"id"}

\* the attribute a field string names, "" when it names none
Attr(field) == IF Len(field) = 1 THEN field[1] ELSE ""

\* the rows of a table of the database
Table(db, resource) == IF resource = Event THEN db.event ELSE db.tag

\* the row with the given primary key
RowOf(db, resource, pk) == CHOOSE row \in Table(db, resource) : row.id = pk

\* the value a row holds in a scalar column
Column(row, attr) ==
    IF attr = "id" THEN row.id
    ELSE IF attr = "name" THEN row.name
    ELSE row.summary

\* related(db, left, right): the (left id, right id) pairs of the relationship
\* between two models, read from the association table nn_event_tag
Related(db, left, right) ==
    IF left = Event /\ right = Tag THEN db.links
    ELSE IF left = Tag /\ right = Event THEN {<<l[2], l[1]>> : l \in db.links}
    ELSE {}

\* the database the service starts on: three events, two tags, event 1
\* carries both tags
InitialStore ==
    [event |-> { [id |-> 1, summary |-> <<"a">>],
                 [id |-> 2, summary |-> <<"b">>],
                 [id |-> 3, summary |-> <<"b">>] },
     tag |-> { [id |-> 1, name |-> <<"a">>], [id |-> 2, name |-> <<"b">>] },
     links |-> { <<1, 1>>, <<1, 2>> }]

(***************************************************************************)
(* The state                                                               *)
(***************************************************************************)
VARIABLES
    rights,     \* Service.rights
    calls,      \* the role descriptions of the add_roles calls that succeeded
    last,       \* the last call of the service: its arguments and its error
    input,      \* the input of the codec run: a request or a URI
    trail,      \* the codec run: the requests and URIs converted so far
    store,      \* the database as last committed
    session,    \* the database as the sqla session holds it (uncommitted changes)
    reply       \* the last create/read/update/delete call and what it did

vars == <<rights, calls, last, input, trail, store, session, reply>>

NoCall ==
    [kind |-> "none", err |-> "none", desc |-> <<>>, operation |-> <<>>,
     request |-> NoRequest, for_roles |-> <<>>]

NoInput == [kind |-> "none", val |-> <<>>]

NoReply == [kind |-> "none"]

\* Service.__init__ with roles={}: an empty rights table
InitService ==
    /\ rights = <<>>
    /\ calls = <<>>
    /\ last = NoCall
    /\ store = InitialStore
    /\ session = InitialStore
    /\ reply = NoReply

Init ==
    /\ InitService
    /\ input = NoInput
    /\ trail = <<>>

\* add_roles(**desc), also the constructor's add_roles(**roles)
AddRoles(desc) ==
    /\ Len(calls) < MaxCalls
    /\ LET r == add_roles(rights, desc)
       IN  /\ rights' = r.rights
           /\ calls' = IF r.err = "none" THEN Append(calls, desc) ELSE calls
           /\ last' = [kind |-> "add_roles", err |-> r.err, desc |-> desc,
                       operation |-> <<>>, request |-> NoRequest,
                       for_roles |-> <<>>]
    /\ UNCHANGED <<input, trail, store, session, reply>>

\* authorize(operation, request, for_roles)
Authorize(operation, request, for_roles) ==
    /\ LET r == authorize(rights, operation, request, for_roles)
       IN  /\ rights' = r.rights
           /\ last' = [kind |-> "authorize", err |-> r.err, desc |-> <<>>,
                       operation |-> operation, request |-> request,
                       for_roles |-> for_roles]
    /\ UNCHANGED <<calls, input, trail, store, session, reply>>

\* a service that is given roles and authorizes requests
Next ==
    \/ \E desc \in ServiceRoleDescriptions : AddRoles(desc)
    \/ \E operation \in Operations, request \in AuthRequests, for_roles \in RoleLists :
         Authorize(operation, request, for_roles)

Spec == Init /\ [][Next]_vars

\* the rights table under successive role descriptions
NextRoles == \E desc \in RoleDescriptions : AddRoles(desc)

SpecRoles == Init /\ [][NextRoles]_vars

\* a codec run starts from a request or from a URI
InitCodec ==
    /\ InitService
    /\ \/ input \in [kind : {"request"}, val : RequestInputs]
       \/ input \in [kind : {"uri"}, val : UriInputs]
    /\ trail = << [kind |-> input.kind,
                   val |-> IF input.kind = "uri" THEN UriStr(input.val)
                           ELSE input.val] >>

\* the outcome of a conversion as an element of the trail
Outcome(kind, r) ==
    IF r.err = "none" THEN [kind |-> kind, val |-> r.val]
    ELSE [kind |-> "error", val |-> r.err]

\* uri = encode(**request); the two sets are iterated in some order
Encode ==
    /\ Len(trail) < MaxTrail
    /\ trail[Len(trail)].kind = "request"
    /\ LET request == trail[Len(trail)].val
       IN  \E filters_order \in Orderings(FilterSet(request)),
              joinpaths_order \in Orderings(JoinpathSet(request)) :
             trail' = Append(trail,
                        Outcome("uri", encode(request, filters_order, joinpaths_order)))
    /\ UNCHANGED <<rights, calls, last, input, store, session, reply>>

\* request = decode(uri), with the defaults of Service.decode
Decode ==
    /\ Len(trail) < MaxTrail
    /\ trail[Len(trail)].kind = "uri"
    /\ trail' = Append(trail,
                  Outcome("request",
                          decode(trail[Len(trail)].val, None, <<"id">>, <<"eq">>)))
    /\ UNCHANGED <<rights, calls, last, input, store, session, reply>>

NextCodec == Encode \/ Decode

SpecCodec == InitCodec /\ [][NextCodec]_vars


(***************************************************************************)
(* relrest.Service: filters and query evaluation                           *)
(***************************************************************************)
\* id '+' and '-' stand for "a list" and "a single record"
reserved_ids == << <<"+">>, <<"-">> >>

Digits == {"0", "1", "2", "3", "4", "5", "6", "7", "8", "9"}

DigitValue(c) ==
    CASE c = "0" -> 0 [] c = "1" -> 1 [] c = "2" -> 2 [] c = "3" -> 3
      [] c = "4" -> 4 [] c = "5" -> 5 [] c = "6" -> 6 [] c = "7" -> 7
      [] c = "8" -> 8 [] OTHER -> 9

\* int(value) succeeds: a non-empty string of digits
IsInt(value) == value # <<>> /\ value # None /\ \A i \in 1..Len(value) : value[i] \in Digits

\* int(value)
ToInt(value) ==
    LET RECURSIVE go(_, _)
        go(i, n) == IF i > Len(value) THEN n ELSE go(i + 1, 10 * n + DigitValue(value[i]))
    IN  go(1, 0)

\* the order of the characters that the stored strings and the patterns use
Alphabet == <<"%", "1", "2", "3", "_", "a", "b", "x">>

Rank(c) == IF c \in Range(Alphabet) THEN CHOOSE i \in 1..Len(Alphabet) : Alphabet[i] = c ELSE 0

\* a < b on strings
StrLess(a, b) ==
    \E k \in 1..Len(b) :
        /\ \A i \in 1..(k - 1) : i <= Len(a) /\ a[i] = b[i]
        /\ k > Len(a) \/ (k <= Len(a) /\ Rank(a[k]) < Rank(b[k]))

\* a < b on two values of one column
Less(integer, a, b) == IF integer THEN a < b ELSE StrLess(a, b)

\* text LIKE pattern: "%" matches any run of characters, "_" any one character
Like(text, pattern) ==
    LET RECURSIVE go(_, _)
        go(i, j) ==
            IF j > Len(pattern) THEN i > Len(text)
            ELSE IF pattern[j] = "%"
            THEN \E k \in i..(Len(text) + 1) : go(k, j + 1)
            ELSE /\ i <= Len(text)
                 /\ pattern[j] = "_" \/ pattern[j] = text[i]
                 /\ go(i + 1, j + 1)
    IN  go(1, 1)

Comparators == {"eq", "ne", "lt", "le", "gt", "ge", "like", "in", "notin"}

\* make_filter(resource, field, comparator, value): the predicate on a column,
\* the value cast by the type of the column before the comparator is read
make_filter(resource, field, comparator, value) ==
    IF resource \notin Range(ModelKeys) THEN Raise("KeyError")
    ELSE IF Attr(field) \notin Scalars(resource) THEN Raise("AttributeError")
    ELSE IF Attr(field) \in IntegerColumns /\ ~IsInt(value) THEN Raise("ValueError")
    ELSE IF Attr(comparator) \notin Comparators THEN Raise("KeyError")
    ELSE Ok([resource |-> resource,
             attr |-> Attr(field),
             comparator |-> Attr(comparator),
             value |-> IF Attr(field) \in IntegerColumns THEN ToInt(value) ELSE value])

\* str(value).split(',') if value else []: the list of an "in" or a "notin"
InList(integer, value) ==
    IF integer THEN (IF value = 0 THEN {} ELSE {value})
    ELSE IF value = <<>> THEN {}
    ELSE Range(Split(value, ","))

\* the predicate holds of the value of its column
Holds(pred, v) ==
    LET integer == pred.attr \in IntegerColumns
    IN  CASE pred.comparator = "eq" -> v = pred.value
          [] pred.comparator = "ne" -> v # pred.value
          [] pred.comparator = "lt" -> Less(integer, v, pred.value)
          [] pred.comparator = "le" -> v = pred.value \/ Less(integer, v, pred.value)
          [] pred.comparator = "gt" -> Less(integer, pred.value, v)
          [] pred.comparator = "ge" -> v = pred.value \/ Less(integer, pred.value, v)
          [] pred.comparator = "like" ->
               IF integer THEN v = pred.value ELSE Like(v, pred.value)
          [] pred.comparator = "in" -> v \in InList(integer, pred.value)
          [] OTHER -> v \notin InList(integer, pred.value)

\* model.id == id of read_resource: the id of the URI is not cast
IdFilter(resource, id) ==
    [resource |-> resource, attr |-> "id", comparator |-> "eq",
     value |-> IF IsInt(id) THEN ToInt(id) ELSE -1]

\* NULL, the primary key of the missing side of an outer join
Null == 0

\* the tables a query reads: those of its entities (of its labeled columns
\* once with_entities has replaced them), of its predicates and of its joins
QueryTables(query) ==
    (IF query.projection = "columns" THEN {c[1] : c \in query.columns}
     ELSE Range(query.models))
    \cup {query.wheres[i].resource : i \in 1..Len(query.wheres)}
    \cup {query.joins[i].left : i \in 1..Len(query.joins)}
    \cup {query.joins[i].right : i \in 1..Len(query.joins)}

\* a table is joined twice, or joined to a table that is joined to it: the
\* statement names a table twice without an alias and the database refuses it
Ambiguous(query) ==
    \E i, j \in 1..Len(query.joins) :
        \/ i # j /\ query.joins[i].right = query.joins[j].right
        \/ query.joins[i].right = query.joins[j].left /\ query.joins[j].right = query.joins[i].left

\* faulty variant: tables that no join relates are combined row by row, on
\* equal primary keys
Matched_paired(db, query) ==
    LET tables == QueryTables(query)
        keys(t) == {row.id : row \in Table(db, t)}
        joined == {query.joins[i].right : i \in 1..Len(query.joins)}
    IN  { a \in [tables -> {Null} \cup UNION {keys(t) : t \in tables}] :
            /\ \A t \in tables : a[t] \in keys(t) \/ (a[t] = Null /\ t \in joined)
            /\ \A t \in tables, u \in tables :
                 (t \notin joined /\ u \notin joined) => a[t] = a[u]
            /\ \A i \in 1..Len(query.joins) :
                 LET j == query.joins[i]
                     related == Related(db, j.left, j.right)
                 IN  \/ <<a[j.left], a[j.right]>> \in related
                     \/ /\ j.outer
                        /\ a[j.right] = Null
                        /\ ~\E r \in keys(j.right) : <<a[j.left], r>> \in related
            /\ \A i \in 1..Len(query.wheres) :
                 LET w == query.wheres[i]
                 IN  /\ a[w.resource] # Null
                     /\ Holds(w, Column(RowOf(db, w.resource, a[w.resource]), w.attr)) }

\* the rows of the query before its limit: one primary key (or NULL) per
\* table; tables that no join relates are combined freely
Matched(db, query) ==
    LET tables == QueryTables(query)
        keys(t) == {row.id : row \in Table(db, t)}
        joined == {query.joins[i].right : i \in 1..Len(query.joins)}
    IN  { a \in [tables -> {Null} \cup UNION {keys(t) : t \in tables}] :
            /\ \A t \in tables : a[t] \in keys(t) \/ (a[t] = Null /\ t \in joined)
            /\ \A i \in 1..Len(query.joins) :
                 LET j == query.joins[i]
                     related == Related(db, j.left, j.right)
                 IN  \/ <<a[j.left], a[j.right]>> \in related
                     \/ /\ j.outer
                        /\ a[j.right] = Null
                        /\ ~\E r \in keys(j.right) : <<a[j.left], r>> \in related
            /\ \A i \in 1..Len(query.wheres) :
                 LET w == query.wheres[i]
                 IN  /\ a[w.resource] # Null
                     /\ Holds(w, Column(RowOf(db, w.resource, a[w.resource]), w.attr)) }

(***************************************************************************)
(* relrest.Service.read_resource: from a request to a query                *)
(***************************************************************************)
\* faulty variant: "+" queries the first node of each join-path, as "-" does
QueriedResources_first_nodes(resource, joinpaths) ==
    IF resource \in {<<"+">>, <<"-">>}
    THEN [i \in 1..Len(joinpaths) |-> joinpaths[i][1][1]]
    ELSE <<resource>>

\* the entities of the query: joinpath_resources of a resourceless request,
\* the base resource of any other
QueriedResources(resource, joinpaths) ==
    IF resource = <<"+">>
    THEN Concat([i \in 1..Len(joinpaths) |->
                   [j \in 1..Len(joinpaths[i]) |-> joinpaths[i][j][1]]])
    ELSE IF resource = <<"-">>
    THEN [i \in 1..Len(joinpaths) |-> joinpaths[i][1][1]]
    ELSE <<resource>>

\* faulty variant: a resourceless request is not asked for join-paths
ResolveModels_any_joinpaths(resource, id, joinpaths) ==
    IF resource \in {<<"+">>, <<"-">>}
    THEN IF Truthy(id) /\ id \notin Range(reserved_ids) THEN Raise("ValueError")
         ELSE LET models == QueriedResources(resource, joinpaths)
              IN  IF Range(models) \subseteq Range(ModelKeys)
                  THEN Ok([models |-> models, base_model |-> None])
                  ELSE Raise("KeyError")
    ELSE IF resource \in Range(ModelKeys)
    THEN Ok([models |-> <<resource>>, base_model |-> resource])
    ELSE Raise("KeyError")

\* the first block of read_resource: the refusals of a resourceless request,
\* then models and base_model (None when resourceless)
ResolveModels(resource, id, joinpaths) ==
    IF resource \in {<<"+">>, <<"-">>}
    THEN IF Truthy(id) /\ id \notin Range(reserved_ids) THEN Raise("ValueError")
         ELSE IF joinpaths = <<>> THEN Raise("ValueError")
         ELSE IF \E i \in 1..Len(joinpaths) : joinpaths[i] = <<>> /\ resource = <<"-">>
         THEN Raise("IndexError")
         ELSE LET models == QueriedResources(resource, joinpaths)
              IN  IF Range(models) \subseteq Range(ModelKeys)
                  THEN Ok([models |-> models, base_model |-> None])
                  ELSE Raise("KeyError")
    ELSE IF resource \in Range(ModelKeys)
    THEN Ok([models |-> <<resource>>, base_model |-> resource])
    ELSE Raise("KeyError")

\* query.filter(model.id == id) for every model, when the id is concrete
IdFilters(models, id) ==
    IF Truthy(id) /\ id \notin Range(reserved_ids)
    THEN [i \in 1..Len(models) |-> IdFilter(models[i], id)]
    ELSE <<>>

\* the loop over the filters.  Its loop variable is named `resource`: after the
\* loop the name holds the resource of the last filter, no longer the
\* resource of the request.
ApplyFilters(base_model, resource, filters, wheres) ==
    LET RECURSIVE go(_, _)
        go(i, acc) ==
            IF i > Len(filters) \/ acc.err # "none" THEN acc
            ELSE LET f == filters[i]
                     resolved == IF Truthy(f[1]) THEN f[1] ELSE base_model
                 IN  IF ~Truthy(f[1]) /\ base_model = None
                     THEN go(i + 1, [acc EXCEPT !.err = "ValueError", !.resource = f[1]])
                     ELSE LET queryfilter == make_filter(resolved, f[2], f[3], f[4])
                          IN  IF queryfilter.err # "none"
                              THEN go(i + 1, [acc EXCEPT !.err = queryfilter.err,
                                                         !.resource = resolved])
                              ELSE go(i + 1, [acc EXCEPT !.resource = resolved,
                                                !.wheres = Append(@, queryfilter.val)])
    IN  go(1, [err |-> "none", resource |-> resource, wheres |-> wheres])

\* faulty variant: the first node of a join-path is a surrogate base, joined
\* from nothing, in every request
ApplyJoinpath_surrogate_always(base_model, resource, joinpath, query) ==
    LET RECURSIVE go(_, _, _, _)
        go(i, last_relmodel, surrogate_base_model, acc) ==
            IF i > Len(joinpath) \/ acc.err # "none" THEN acc
            ELSE LET joinnode == joinpath[i]
                     relresource == joinnode[1]
                     relfilter == make_filter(joinnode[1], joinnode[2], joinnode[3], joinnode[4])
                     left == IF last_relmodel # None THEN last_relmodel
                             ELSE surrogate_base_model
                 IN  IF relresource \notin Range(ModelKeys)
                     THEN [acc EXCEPT !.err = "KeyError"]
                     ELSE IF Truthy(joinnode[4]) /\ relfilter.err # "none"
                     THEN [acc EXCEPT !.err = relfilter.err]
                     ELSE LET filtered == IF Truthy(joinnode[4])
                                          THEN [acc EXCEPT !.wheres = Append(@, relfilter.val)]
                                          ELSE acc
                          IN  IF surrogate_base_model = None
                              THEN go(i + 1, last_relmodel, relresource, filtered)
                              ELSE IF Attr(relresource) \notin Relationships(left)
                              THEN [filtered EXCEPT !.err = "AttributeError"]
                              ELSE go(i + 1, relresource, surrogate_base_model,
                                      [filtered EXCEPT !.joins = Append(@,
                                          [left |-> left, right |-> relresource,
                                           outer |-> (resource = <<"+">>)])])
    IN  go(1, None, None, query)

\* one join-path: the filter of each node that has a value, and a join from the
\* last entity of the chain to each node but a surrogate base
ApplyJoinpath(base_model, resource, joinpath, query) ==
    LET RECURSIVE go(_, _, _, _)
        go(i, last_relmodel, surrogate_base_model, acc) ==
            IF i > Len(joinpath) \/ acc.err # "none" THEN acc
            ELSE LET joinnode == joinpath[i]
                     relresource == joinnode[1]
                     relfilter == make_filter(joinnode[1], joinnode[2], joinnode[3], joinnode[4])
                     left == IF last_relmodel # None THEN last_relmodel
                             ELSE IF surrogate_base_model # None THEN surrogate_base_model
                             ELSE base_model
                 IN  IF relresource \notin Range(ModelKeys)
                     THEN [acc EXCEPT !.err = "KeyError"]
                     ELSE IF Truthy(joinnode[4]) /\ relfilter.err # "none"
                     THEN [acc EXCEPT !.err = relfilter.err]
                     ELSE LET filtered == IF Truthy(joinnode[4])
                                          THEN [acc EXCEPT !.wheres = Append(@, relfilter.val)]
                                          ELSE acc
                          IN  IF base_model = None /\ surrogate_base_model = None
                              THEN go(i + 1, last_relmodel, relresource, filtered)
                              ELSE IF Attr(relresource) \notin Relationships(left)
                              THEN [filtered EXCEPT !.err = "AttributeError"]
                              ELSE go(i + 1, relresource, surrogate_base_model,
                                      [filtered EXCEPT !.joins = Append(@,
                                          [left |-> left, right |-> relresource,
                                           outer |-> (resource = <<"+">>)])])
    IN  go(1, None, None, query)

\* the loop over the join-paths
ApplyJoinpaths(base_model, resource, joinpaths, wheres) ==
    LET RECURSIVE go(_, _)
        go(i, acc) ==
            IF i > Len(joinpaths) \/ acc.err # "none" THEN acc
            ELSE go(i + 1, ApplyJoinpath(base_model, resource, joinpaths[i], acc))
    IN  go(1, [err |-> "none", wheres |-> wheres, joins |-> <<>>])

\* faulty variant: ":count" counts only when it is the first field
CountRequested_first(fields) == fields # <<>> /\ fields[1][2] = <<":count">>

\* ":count" in [field for f_resource, field in fields]
CountRequested(fields) == \E i \in 1..Len(fields) : fields[i][2] = <<":count">>

\* the loop over the order: the column of each criterion, then order_by, which
\* sqla refuses on a query that has a limit
ApplyOrder(base_model, order, limit) ==
    LET RECURSIVE go(_, _)
        go(i, acc) ==
            IF i > Len(order) \/ acc.err # "none" THEN acc
            ELSE LET o == order[i]
                     o_model == IF Truthy(o[1]) THEN o[1] ELSE base_model
                 IN  IF Truthy(o[1]) /\ o[1] \notin Range(ModelKeys)
                     THEN [acc EXCEPT !.err = "KeyError"]
                     ELSE IF o_model = None \/ Attr(o[2]) \notin Scalars(o_model)
                             \/ Attr(o[3]) \notin {"asc", "desc"}
                     THEN [acc EXCEPT !.err = "AttributeError"]
                     ELSE IF limit # None
                     THEN [acc EXCEPT !.err = "InvalidRequestError"]
                     ELSE go(i + 1, [acc EXCEPT !.order_by = Append(@, <<o_model, o[2], o[3]>>)])
    IN  go(1, [err |-> "none", order_by |-> <<>>])

\* the labeled columns of a resourceless query: every scalar of every model
\* when no field is given, else the scalars the fields name
Entities(models, fields) ==
    LET RECURSIVE go(_, _)
        go(i, acc) ==
            IF i > Len(fields) \/ acc.err # "none" THEN acc
            ELSE LET f_resource == fields[i][1]
                     f_field == Attr(fields[i][2])
                 IN  IF Truthy(f_resource)
                     THEN IF f_resource \notin Range(ModelKeys)
                          THEN [acc EXCEPT !.err = "KeyError"]
                          ELSE IF f_field \notin Scalars(f_resource) \cup Relationships(f_resource)
                          THEN [acc EXCEPT !.err = "AttributeError"]
                          ELSE go(i + 1, [acc EXCEPT !.val = @ \cup
                                   (IF f_field \in Scalars(f_resource)
                                    THEN {<<f_resource, f_field>>} ELSE {})])
                     ELSE go(i + 1, [acc EXCEPT !.val = @ \cup
                            {<<m, f_field>> : m \in {m \in Range(models) : f_field \in Scalars(m)}}])
    IN  IF fields = <<>>
        THEN Ok(UNION {{<<m, a>> : a \in Scalars(m)} : m \in Range(models)})
        ELSE go(1, Ok({}))

\* the load options of a query on one resource: load_only of each field on the
\* model of the field, the base model, or the model of the field before
LoadOptions(base_model, fields) ==
    LET RECURSIVE go(_, _, _)
        go(i, f_model, acc) ==
            IF i > Len(fields) \/ acc.err # "none" THEN acc
            ELSE LET f_resource == fields[i][1]
                     f_field == Attr(fields[i][2])
                     model == IF Truthy(f_resource) THEN f_resource
                              ELSE IF base_model # None THEN base_model
                              ELSE f_model
                 IN  IF Truthy(f_resource) /\ f_resource \notin Range(ModelKeys)
                     THEN [acc EXCEPT !.err = "KeyError"]
                     ELSE IF model = None THEN [acc EXCEPT !.err = "UnboundLocalError"]
                     ELSE IF f_field \notin Scalars(model) \cup Relationships(model)
                     THEN [acc EXCEPT !.err = "ArgumentError"]
                     ELSE go(i + 1, model, [acc EXCEPT !.val = @ \cup {<<model, f_field>>}])
    IN  go(1, None, Ok({}))

\* the query read_resource has built when it reaches its return statements, or
\* the error raised on the way.  `counted`: the ":count" return is taken,
\* before any order, projection or serialization.
BuildQuery(resource, id, fields, filters, joinpaths, order, limit) ==
    LET none == [err |-> "none", counted |-> FALSE, resource |-> resource,
                 models |-> <<>>, wheres |-> <<>>, joins |-> <<>>, limit |-> limit,
                 order_by |-> <<>>, projection |-> "none", columns |-> {}]
        resolved == ResolveModels(resource, id, joinpaths)
    IN  IF resolved.err # "none" THEN [none EXCEPT !.err = resolved.err]
        ELSE
        LET models == resolved.val.models
            base_model == resolved.val.base_model
            filtered == ApplyFilters(base_model, resource, filters, IdFilters(models, id))
        IN  IF filtered.err # "none"
            THEN [none EXCEPT !.err = filtered.err, !.models = models]
            ELSE
            LET joined == ApplyJoinpaths(base_model, filtered.resource, joinpaths,
                                         filtered.wheres)
                query == [none EXCEPT !.resource = filtered.resource, !.models = models,
                                      !.wheres = joined.wheres, !.joins = joined.joins]
            IN  IF joined.err # "none" THEN [query EXCEPT !.err = joined.err]
                ELSE IF CountRequested(fields) THEN [query EXCEPT !.counted = TRUE]
                ELSE
                LET ordered == ApplyOrder(base_model, order, limit)
                    selected == IF filtered.resource \in {<<"+">>, <<"-">>}
                                THEN Entities(models, fields)
                                ELSE LoadOptions(base_model, fields)
                    projected == [query EXCEPT
                                    !.order_by = ordered.order_by,
                                    !.projection = IF filtered.resource \in {<<"+">>, <<"-">>}
                                                   THEN "columns" ELSE "options"]
                IN  IF ordered.err # "none" THEN [query EXCEPT !.err = ordered.err]
                    ELSE IF selected.err # "none"
                    THEN [projected EXCEPT !.err = selected.err]
                    ELSE [projected EXCEPT !.columns = selected.val]

\* the error of the database on the statement of the query, "none" if it runs
StatementError(query) ==
    IF query.limit # None /\ ~IsInt(query.limit) THEN "ValueError"
    ELSE IF query.projection = "columns" /\ query.columns = {} THEN "InvalidRequestError"
    ELSE IF Ambiguous(query) THEN "OperationalError"
    ELSE "none"

Min(a, b) == IF a < b THEN a ELSE b

\* faulty variant: the limit is not applied to the rows that are counted
Returned_unlimited(db, query) ==
    IF query.err # "none" \/ StatementError(query) # "none" THEN {{}}
    ELSE {Matched(db, query)}

\* the rows the database may return: all the matched rows, or any LIMIT of them
Returned(db, query) ==
    IF query.err # "none" \/ StatementError(query) # "none" THEN {{}}
    ELSE LET matched == Matched(db, query)
         IN  IF query.limit = None THEN {matched}
             ELSE {rows \in SUBSET matched :
                     Cardinality(rows) = Min(ToInt(query.limit), Cardinality(matched))}

\* the results of the query as sqla hands them over: one primary key per model
\* and unique when the query loads entities, one row per match when it loads
\* labeled columns
Results(query, returned) ==
    IF query.projection = "options"
    THEN {[i \in 1..Len(query.models) |-> row[query.models[i]]] : row \in returned}
    ELSE returned

\* faulty variant: an absent identifier asks for a single record, as "-" does
Shaped_absent_one(id, results) ==
    IF id = <<"+">> THEN [err |-> "none", shape |-> "list"]
    ELSE IF results = {} THEN [err |-> "NoResultFound", shape |-> "none"]
    ELSE IF Cardinality(results) > 1 THEN [err |-> "MultipleResultsFound", shape |-> "none"]
    ELSE [err |-> "none", shape |-> "record"]

\* faulty variant: query.first() in place of query.one()
Shaped_first(id, results) ==
    IF ~Truthy(id) \/ id = <<"+">> THEN [err |-> "none", shape |-> "list"]
    ELSE [err |-> "none", shape |-> "record"]

\* the end of read_resource: query.all() when the identifier is absent or "+",
\* else query.one(), which raises unless the query has exactly one result
Shaped(id, results) ==
    IF ~Truthy(id) \/ id = <<"+">> THEN [err |-> "none", shape |-> "list"]
    ELSE IF results = {} THEN [err |-> "NoResultFound", shape |-> "none"]
    ELSE IF Cardinality(results) > 1 THEN [err |-> "MultipleResultsFound", shape |-> "none"]
    ELSE [err |-> "none", shape |-> "record"]

\* the end of read_resource, from the count on: what the built query returns
\* when the database returns the rows `returned` to it.  serialize_result
\* raises ValueError on a tuple of entities.
Execute(id, query, returned) ==
    LET failed(e, ran) == [err |-> e, executed |-> ran, shape |-> "none", count |-> 0,
                           results |-> {}, serialized |-> FALSE, query |-> query]
        done == [err |-> "none", executed |-> TRUE, shape |-> "none", count |-> 0,
                 results |-> {}, serialized |-> FALSE, query |-> query]
    IN  IF query.err # "none" THEN failed(query.err, FALSE)
        ELSE IF StatementError(query) # "none" THEN failed(StatementError(query), TRUE)
        ELSE IF query.counted
        THEN [done EXCEPT !.shape = "count", !.count = Cardinality(returned)]
        ELSE IF Shaped(id, Results(query, returned)).err # "none"
        THEN failed(Shaped(id, Results(query, returned)).err, TRUE)
        ELSE IF /\ Results(query, returned) # {}
                /\ query.projection = "options"
                /\ Len(query.models) > 1
        THEN failed("ValueError", TRUE)
        ELSE [done EXCEPT !.shape = Shaped(id, Results(query, returned)).shape,
                          !.results = Results(query, returned),
                          !.serialized = TRUE]

\* read_resource(resource, id, fields, filters, joinpaths, order, limit) when
\* the database returns the rows `returned` to its query: the error or the
\* shape and the content of what is returned, and whether a query was executed
read_resource(resource, id, fields, filters, joinpaths, order, limit, returned) ==
    Execute(id, BuildQuery(resource, id, fields, filters, joinpaths, order, limit), returned)

(***************************************************************************)
(* relrest.Service: update_resource, delete_resource, set_property         *)
(***************************************************************************)
\* the row with one scalar column set
SetColumn(row, attr, value) ==
    IF attr = "summary" THEN [row EXCEPT !.summary = value]
    ELSE IF attr = "name" THEN [row EXCEPT !.name = value]
    ELSE [row EXCEPT !.id = IF IsInt(value) THEN ToInt(value) ELSE Null]

\* the database with one row of a table replaced
SetRow(db, resource, pk, row) ==
    LET rows == (Table(db, resource) \ {RowOf(db, resource, pk)}) \cup {row}
    IN  IF resource = Event THEN [db EXCEPT !.event = rows] ELSE [db EXCEPT !.tag = rows]

\* the database with the related rows of one row set to the given primary keys
SetRelated(db, resource, pk, related) ==
    IF resource = Event
    THEN [db EXCEPT !.links = {l \in @ : l[1] # pk} \cup {<<pk, r>> : r \in related}]
    ELSE [db EXCEPT !.links = {l \in @ : l[2] # pk} \cup {<<r, pk>> : r \in related}]

\* faulty variant: a n.. relationship is set to every entity of the related
\* model, whatever the list
relationship_value_every_entity(impl, keys, value) ==
    IF impl = "ScalarObjectAttributeImpl"
    THEN IF value = Null THEN [err |-> "none", related |-> {}]
         ELSE IF value \notin keys THEN [err |-> "NoResultFound", related |-> {}]
         ELSE [err |-> "none", related |-> {value}]
    ELSE [err |-> "none", related |-> keys]

\* the relationship branch of set_property: the primary keys of the entities
\* that setattr is given, out of the primary keys `keys` of the related model.
\* ..1 relationship: relation.one() if value else None; n.. relationship: the
\* entities whose id is in the list `value`
relationship_value(impl, keys, value) ==
    IF impl = "ScalarObjectAttributeImpl"
    THEN IF value = Null THEN [err |-> "none", related |-> {}]
         ELSE IF value \notin keys THEN [err |-> "NoResultFound", related |-> {}]
         ELSE [err |-> "none", related |-> {value}]
    ELSE [err |-> "none", related |-> keys \cap Range(value)]

\* set_property(model_instance, property_name, value) on the row pk of a
\* resource: a scalar is assigned, a n.. relationship is set to the rows of the
\* related resource whose id is in the value, any other name is no attribute
set_property(db, resource, pk, property_name, value) ==
    IF property_name \in Scalars(resource)
    THEN [err |-> "none",
          db |-> SetRow(db, resource, pk,
                        SetColumn(RowOf(db, resource, pk), property_name, value))]
    ELSE IF property_name \in Relationships(resource)
    THEN [err |-> "none",
          db |-> SetRelated(db, resource, pk,
                    relationship_value("CollectionAttributeImpl",
                        {row.id : row \in Table(db, <<property_name>>)}, value).related)]
    ELSE [err |-> "AttributeError", db |-> db]

\* str(n) of a primary key
Str(n) == <<CHOOSE d \in Digits : DigitValue(d) = n>>

\* the primary key the database gives to a new row: one more than the largest
NextKey(db, resource) ==
    LET keys == {row.id : row \in Table(db, resource)}
    IN  IF keys = {} THEN 1 ELSE 1 + CHOOSE k \in keys : \A other \in keys : other <= k

\* the nullable=False column of a model other than its primary key
Required(resource) == IF resource = Event THEN "summary" ELSE "name"

\* self.model[resource](): a row without values, under the key it will get
NewRow(db, resource) ==
    IF resource = Event THEN [id |-> NextKey(db, resource), summary |-> None]
    ELSE [id |-> NextKey(db, resource), name |-> None]

\* session.add(row): the database with one more row
AddRow(db, resource, row) ==
    IF resource = Event THEN [db EXCEPT !.event = @ \cup {row}]
    ELSE [db EXCEPT !.tag = @ \cup {row}]

\* create_resource(resource, record) on the session db: the error, the session
\* afterwards, whether it was committed and the primary key of the new row.
\* The row is in the session once session.add is reached, and already when a
\* relationship has been set to entities of the session (save-update cascades
\* along the back reference).  A row without its nullable=False column fails
\* the flush of the commit.
create_resource(db, resource, record) ==
    LET pk == NextKey(db, resource)
        left(e, d, ran) == [err |-> e, db |-> d, committed |-> FALSE, executed |-> ran,
                            pk |-> Null]
        RECURSIVE go(_, _, _, _)
        go(i, d, pending, ran) ==
            IF i > Len(record)
            THEN IF Column(RowOf(d, resource, pk), Required(resource)) = None
                 THEN left("IntegrityError", db, TRUE)
                 ELSE [err |-> "none", db |-> d, committed |-> TRUE, executed |-> TRUE,
                       pk |-> pk]
            ELSE LET set == set_property(d, resource, pk, record[i][1], record[i][2])
                     relationship == record[i][1] \in Relationships(resource)
                 IN  IF set.err # "none"
                     THEN left(set.err, IF pending THEN d ELSE db, ran)
                     ELSE go(i + 1, set.db,
                             pending \/ (relationship /\
                                 \E l \in Related(set.db, resource, <<record[i][1]>>) :
                                    l[1] = pk),
                             ran \/ relationship)
    IN  IF resource \notin Range(ModelKeys) THEN left("KeyError", db, FALSE)
        ELSE go(1, AddRow(db, resource, NewRow(db, resource)), FALSE, FALSE)

\* the rows of a resource that filter_by(id=id) matches
ById(db, resource, id) ==
    {row \in Table(db, resource) : IsInt(id) /\ row.id = ToInt(id)}

\* update_resource(resource, id, record) on the session db: the error, the
\* session afterwards and whether it was committed
update_resource(db, resource, id, record) ==
    LET left(e, d, ran) == [err |-> e, db |-> d, committed |-> FALSE, executed |-> ran]
        RECURSIVE go(_, _, _)
        go(i, pk, d) ==
            IF i > Len(record)
            THEN [err |-> "none", db |-> d, committed |-> TRUE, executed |-> TRUE]
            ELSE LET set == set_property(d, resource, pk, record[i][1], record[i][2])
                 IN  IF set.err # "none" THEN left(set.err, set.db, TRUE)
                     ELSE go(i + 1, pk, set.db)
    IN  IF ~Truthy(id) \/ id \in Range(reserved_ids) THEN left("ValueError", db, FALSE)
        ELSE IF resource \notin Range(ModelKeys) THEN left("KeyError", db, FALSE)
        ELSE IF ById(db, resource, id) = {} THEN left("NoResultFound", db, TRUE)
        ELSE go(1, ToInt(id), db)

\* faulty variant: the delete cascades to the rows the deleted row is related to
DeleteRow_related(db, resource, pk) ==
    IF resource = Event
    THEN [db EXCEPT !.event = {row \in @ : row.id # pk},
                    !.tag = {row \in @ : <<pk, row.id>> \notin db.links},
                    !.links = {l \in @ : l[1] # pk}]
    ELSE [db EXCEPT !.tag = {row \in @ : row.id # pk},
                    !.event = {row \in @ : <<row.id, pk>> \notin db.links},
                    !.links = {l \in @ : l[2] # pk}]

\* the database without one row and without its rows of the association table
DeleteRow(db, resource, pk) ==
    LET rows == {row \in Table(db, resource) : row.id # pk}
    IN  IF resource = Event
        THEN [db EXCEPT !.event = rows, !.links = {l \in @ : l[1] # pk}]
        ELSE [db EXCEPT !.tag = rows, !.links = {l \in @ : l[2] # pk}]

\* delete_resource(resource, id) on the session db
delete_resource(db, resource, id) ==
    IF ~Truthy(id) \/ id \in Range(reserved_ids)
    THEN [err |-> "ValueError", db |-> db, committed |-> FALSE, executed |-> FALSE]
    ELSE IF resource \notin Range(ModelKeys)
    THEN [err |-> "KeyError", db |-> db, committed |-> FALSE, executed |-> FALSE]
    ELSE IF ById(db, resource, id) = {}
    THEN [err |-> "NoResultFound", db |-> db, committed |-> FALSE, executed |-> TRUE]
    ELSE [err |-> "none", db |-> DeleteRow(db, resource, ToInt(id)),
          committed |-> TRUE, executed |-> TRUE]

(***************************************************************************)
(* relrest.Service: read, update, delete on a populated database           *)
(***************************************************************************)
\* the roles of the service: none (authorization disabled), or anybody reads
\* tags and a user does everything
NoRoles == <<>>

TagReaders ==
    << <<"*", << <<Tag, <<OpRead>> >> >> >>, <<"user", << <<Star, <<Star>> >> >> >> >>

ServiceRoles == {NoRoles, TagReaders}

\* the URIs that are read
ReadUris ==
    { <<"+">>,
      <<"-", "/", "1">>,
      <<"+", "/", "1", "?", "/", "tag">>,
      <<"+", "/", "+", "?", "/", "tag", "/", "event">>,
      <<"-", "/", "+", "?", "/", "tag", "/", "event">>,
      <<"-", "/", "-", "?", "/", "tag", "=", "1">>,
      <<"+", "/", "+", "?", "/", "tag", "&", "/", "event">>,
      <<"+", "/", "+", "?", "/", "tag", "/", "event", "&", "/", "event">>,
      <<"+", "/", "+", "?", "tag", ".", "name", ".", "eq", "=", "a", "&", "/", "tag", "/", "event">>,
      <<"+", "/", "+", "?", "name", "=", "a", "&", "/", "event">>,
      <<"+", "/", "+", "/", ":count", "?", "/", "tag", "&", "/", "event">>,
      <<"+", "/", "+", "/", ":count", "?", "/", "tag", "=", "1", "&", "/", "event">>,
      <<"+", "/", "+", "/", ":count", "?", "/", "tag", "=", "1", "&", "/", "tag", "=", "2">>,
      <<"+", "/", "+", "/", ":count", "?", "/", "tag", "/", "event", "&", "/", "event">>,
      <<"+", "/", "+", "/", ":count", "?", "/", "tag", "/", "event">>,
      <<"+", "/", "+", "/", ":count", "?", "/", "tag">>,
      <<"tag">>,
      <<"tag", "?", "name", "=", "a">>,
      <<"tag", "/", "+">>,
      <<"tag", "/", "-">>,
      <<"tag", "/", "1">>,
      <<"tag", "/", "+", "?", "name", "=", "a">>,
      <<"tag", "/", "-", "?", "name", "=", "a">>,
      <<"tag", "/", "-", "?", "name", "=", "x">>,
      <<"tag", "/", "+", "?", "name", "=", "x">>,
      <<"tag", "/", "-", "?", "_limit", "=", "1">>,
      <<"event", "/", "+", "?", "/", "tag">>,
      <<"tag", "/", "+", "?", "name", "=", "a", "&", "/", "event">>,
      <<"tag", "/", "+", "?", "/", ".", "name", "=", "a">>,
      <<"tag", "/", "+", "/", ":count">>,
      <<"tag", "/", "/", ":count">>,
      <<"tag", "/", "-", "/", ":count">>,
      <<"tag", "/", "+", "/", "name", ",", ":count">>,
      <<"tag", "/", "-", "/", "bogus", ",", "event", ".", ":count">>,
      <<"tag", "/", "+", "/", ":count", "?", "_limit", "=", "1">>,
      <<"tag", "/", "+", "/", "name">>,
      <<"tag", "/", "+", "/", "bogus">>,
      <<"tag", "/", "+", "/", "name", "/", "x">>,
      <<"tag", "/", "+", "?", "id", ".", "in", "=", "1", ",", "2">>,
      <<"tag", "/", "+", "?", "id", ".", "in", "=", "2">>,
      <<"tag", "/", "+", "?", "id", ".", "notin", "=", "1", ",", "2">>,
      <<"tag", "/", "+", "?", "name", ".", "in", "=", "a", ",", "b">>,
      <<"tag", "/", "+", "?", "name", ".", "notin", "=", "a">>,
      <<"tag", "/", "+", "?", "name", ".", "in", "=">>,
      <<"event", "/", "+", "?", "/", "tag", "/", "event">> }

\* the order of a read, as the decoder of the service hands it over
Orders == { <<>>, << <<None, <<"name">>, <<"desc">> >> >> }

\* the URIs that are updated, and the records
UpdateUris ==
    { <<"event">>,
      <<"event", "/", "+">>,
      <<"event", "/", "-">>,
      <<"event", "/", "2">>,
      <<"event", "/", "2", "/", "id">>,
      <<"event", "/", "9">> }

Records ==
    { <<>>,
      << <<"summary", <<"x">> >> >>,
      << <<"summary", <<"x">> >>, <<"bogus", <<"y">> >> >>,
      << <<"bogus", <<"y">> >>, <<"summary", <<"x">> >> >> }

\* the URIs that are deleted
DeleteUris ==
    { <<"event">>,
      <<"event", "/", "+">>,
      <<"event", "/", "-">>,
      <<"event", "/", "1">>,
      <<"event", "/", "9">> }

\* a database in which tag 2 is on no event
SparseStore == [InitialStore EXCEPT !.links = {<<1, 1>>}]

Stores == {InitialStore, SparseStore}

\* a service constructed on a populated database, with or without roles
InitCrud ==
    /\ \E roles \in ServiceRoles :
         /\ rights = add_roles(<<>>, roles).rights
         /\ calls = IF roles = NoRoles THEN <<>> ELSE <<roles>>
    /\ last = NoCall
    /\ input = NoInput
    /\ trail = <<>>
    /\ store \in Stores
    /\ session = store
    /\ reply = NoReply

\* Service.decode(uri)
ServiceDecode(uri) == decode(uri, None, <<"id">>, <<"eq">>)

\* the query of a call that built none
NoQuery ==
    [err |-> "none", counted |-> FALSE, resource |-> <<>>, models |-> <<>>,
     wheres |-> <<>>, joins |-> <<>>, limit |-> None, order_by |-> <<>>,
     projection |-> "none", columns |-> {}]

\* a call that raised before it handed anything to the database
Refused(err) ==
    [err |-> err, executed |-> FALSE, shape |-> "none", count |-> 0, results |-> {},
     serialized |-> FALSE, query |-> NoQuery]

\* the request of a URI that does not decode
BlankRequest ==
    [resource |-> <<>>, id |-> <<>>, fields |-> <<>>, joinpaths |-> <<>>,
     filters |-> <<>>, limit |-> None]

\* what a call was given, the request it decoded and what it did
Reply(kind, uri, decoded, for_roles, order, record, r) ==
    [kind |-> kind, uri |-> uri, decoded |-> (decoded.err = "none"),
     request |-> IF decoded.err = "none" THEN decoded.val ELSE BlankRequest,
     for_roles |-> for_roles, order |-> order,
     record |-> record, err |-> r.err,
     executed |-> r.executed, shape |-> r.shape, count |-> r.count,
     results |-> r.results, serialized |-> r.serialized, query |-> r.query]

\* read(uri, for_roles)
Read(uri, order, for_roles) ==
    /\ \E decoded \in {ServiceDecode(uri)} :
         IF decoded.err # "none"
         THEN /\ reply' = Reply("read", uri, decoded, for_roles, order, <<>>,
                                Refused(decoded.err))
              /\ rights' = rights
         ELSE \E auth \in {authorize(rights, OpRead, decoded.val, for_roles)} :
                /\ rights' = auth.rights
                /\ IF auth.err # "none"
                   THEN reply' = Reply("read", uri, decoded, for_roles, order, <<>>,
                                       Refused(auth.err))
                   ELSE \E query \in {BuildQuery(decoded.val.resource, decoded.val.id,
                                                 decoded.val.fields, decoded.val.filters,
                                                 decoded.val.joinpaths, order,
                                                 decoded.val.limit)} :
                          \E returned \in Returned(session, query) :
                            reply' = Reply("read", uri, decoded, for_roles, order, <<>>,
                                           Execute(decoded.val.id, query, returned))
    /\ UNCHANGED <<calls, last, input, trail, store, session>>

\* update(uri, record, for_roles): update_resource, then the record is read
\* again with the fields of the URI
Update(uri, record, for_roles) ==
    /\ \E decoded \in {ServiceDecode(uri)} :
         IF decoded.err # "none"
         THEN /\ reply' = Reply("update", uri, decoded, for_roles, <<>>, record,
                                Refused(decoded.err))
              /\ UNCHANGED <<rights, store, session>>
         ELSE \E auth \in {authorize(rights, OpUpdate, decoded.val, for_roles)} :
                /\ rights' = auth.rights
                /\ IF auth.err # "none"
                   THEN /\ reply' = Reply("update", uri, decoded, for_roles, <<>>, record,
                                          Refused(auth.err))
                        /\ UNCHANGED <<store, session>>
                   ELSE \E updated \in {update_resource(session, decoded.val.resource,
                                                        decoded.val.id, record)} :
                          /\ session' = updated.db
                          /\ store' = IF updated.committed THEN updated.db ELSE store
                          /\ IF updated.err # "none"
                             THEN reply' = Reply("update", uri, decoded, for_roles, <<>>,
                                                 record,
                                                 [Refused(updated.err) EXCEPT
                                                    !.executed = updated.executed])
                             ELSE \E query \in {BuildQuery(decoded.val.resource,
                                                           decoded.val.id,
                                                           decoded.val.fields,
                                                           <<>>, <<>>, <<>>, None)} :
                                    \E returned \in Returned(updated.db, query) :
                                      reply' = Reply("update", uri, decoded, for_roles,
                                                     <<>>, record,
                                                     Execute(decoded.val.id, query,
                                                             returned))
    /\ UNCHANGED <<calls, last, input, trail>>

\* delete(uri, for_roles)
Delete(uri, for_roles) ==
    /\ \E decoded \in {ServiceDecode(uri)} :
         IF decoded.err # "none"
         THEN /\ reply' = Reply("delete", uri, decoded, for_roles, <<>>, <<>>,
                                Refused(decoded.err))
              /\ UNCHANGED <<rights, store, session>>
         ELSE \E auth \in {authorize(rights, OpDelete, decoded.val, for_roles)} :
                /\ rights' = auth.rights
                /\ IF auth.err # "none"
                   THEN /\ reply' = Reply("delete", uri, decoded, for_roles, <<>>, <<>>,
                                          Refused(auth.err))
                        /\ UNCHANGED <<store, session>>
                   ELSE \E deleted \in {delete_resource(session, decoded.val.resource,
                                                        decoded.val.id)} :
                          /\ session' = deleted.db
                          /\ store' = IF deleted.committed THEN deleted.db ELSE store
                          /\ reply' = Reply("delete", uri, decoded, for_roles, <<>>, <<>>,
                                            [Refused(deleted.err) EXCEPT
                                               !.executed = deleted.executed])
    /\ UNCHANGED <<calls, last, input, trail>>

\* a service that answers reads
NextRead ==
    \E uri \in ReadUris, order \in Orders, for_roles \in RoleLists :
      Read(uri, order, for_roles)

SpecRead == InitCrud /\ [][NextRead]_vars

\* a service that updates and deletes
NextWrite ==
    \/ \E uri \in UpdateUris, record \in Records, for_roles \in RoleLists :
         Update(uri, record, for_roles)
    \/ \E uri \in DeleteUris, for_roles \in RoleLists : Delete(uri, for_roles)

SpecWrite == InitCrud /\ [][NextWrite]_vars

(***************************************************************************)
(* relrest.Service: create, update, delete under roles that write tags     *)
(***************************************************************************)
\* the number of rows of a table beyond which nothing is created
MaxRows == 4

\* anybody creates, updates and deletes tags, a user does everything
TagWriters ==
    << <<"*", << <<Tag, <<OpCreate, OpUpdate, OpDelete>> >> >> >>,
       <<"user", << <<Star, <<Star>> >> >> >> >>

WriterRoles == {NoRoles, TagWriters}

\* the URIs and the records of the calls
CreateUris == { <<"event">>, <<"event", "?", "/", "tag">>, <<"+">> }

CreateRecords ==
    { << <<"summary", <<"x">> >> >>,
      << <<"summary", <<"x">> >>, <<"tag", <<1>> >> >>,
      << <<"summary", <<"x">> >>, <<"bogus", <<"y">> >> >>,
      << <<"summary", <<"x">> >>, <<"tag", <<1>> >>, <<"bogus", <<"y">> >> >> }

StoreUpdateUris == { <<"event", "/", "2">>, <<"event", "/", "2", "?", "/", "tag">> }

StoreUpdateRecords ==
    { << <<"summary", <<"x">> >> >>,
      << <<"tag", <<2>> >> >>,
      << <<"summary", <<"x">> >>, <<"bogus", <<"y">> >> >> }

StoreDeleteUris == { <<"event", "/", "1">>, <<"event", "/", "1", "?", "/", "tag">> }

\* a service constructed on the populated database, with or without roles
InitWriters ==
    /\ \E roles \in WriterRoles :
         /\ rights = add_roles(<<>>, roles).rights
         /\ calls = IF roles = NoRoles THEN <<>> ELSE <<roles>>
    /\ last = NoCall
    /\ input = NoInput
    /\ trail = <<>>
    /\ store = InitialStore
    /\ session = store
    /\ reply = NoReply

\* create(uri, record, for_roles): create_resource, then the new record is read
\* by its primary key
Create(uri, record, for_roles) ==
    /\ Cardinality(session.event) < MaxRows
    /\ \E decoded \in {ServiceDecode(uri)} :
         IF decoded.err # "none"
         THEN /\ reply' = Reply("create", uri, decoded, for_roles, <<>>, record,
                                Refused(decoded.err))
              /\ UNCHANGED <<rights, store, session>>
         ELSE \E auth \in {authorize(rights, OpCreate, decoded.val, for_roles)} :
                /\ rights' = auth.rights
                /\ IF auth.err # "none"
                   THEN /\ reply' = Reply("create", uri, decoded, for_roles, <<>>, record,
                                          Refused(auth.err))
                        /\ UNCHANGED <<store, session>>
                   ELSE \E created \in {create_resource(session, decoded.val.resource,
                                                        record)} :
                          /\ session' = created.db
                          /\ store' = IF created.committed THEN created.db ELSE store
                          /\ IF created.err # "none"
                             THEN reply' = Reply("create", uri, decoded, for_roles, <<>>,
                                                 record,
                                                 [Refused(created.err) EXCEPT
                                                    !.executed = created.executed])
                             ELSE \E query \in {BuildQuery(decoded.val.resource,
                                                           Str(created.pk), <<>>,
                                                           <<>>, <<>>, <<>>, None)} :
                                    \E returned \in Returned(created.db, query) :
                                      reply' = Reply("create", uri, decoded, for_roles,
                                                     <<>>, record,
                                                     Execute(Str(created.pk), query,
                                                             returned))
    /\ UNCHANGED <<calls, last, input, trail>>

\* a service that creates, updates and deletes
NextStore ==
    \/ \E uri \in CreateUris, record \in CreateRecords, for_roles \in RoleLists :
         Create(uri, record, for_roles)
    \/ \E uri \in StoreUpdateUris, record \in StoreUpdateRecords, for_roles \in RoleLists :
         Update(uri, record, for_roles)
    \/ \E uri \in StoreDeleteUris, for_roles \in RoleLists : Delete(uri, for_roles)

SpecStore == InitWriters /\ [][NextStore]_vars

(***************************************************************************)
(* set_property and serialize_model on one entity                          *)
(***************************************************************************)
\* a model with one attribute of each impl, as a service can be given: a
\* column, a ..1 relationship and a n.. relationship, in the order of
\* _sa_instance_state.attrs
PostAttrs == <<"title", "author", "tag">>

PostImpl(property_name) ==
    CASE property_name = "title" -> "ScalarAttributeImpl"
      [] property_name = "author" -> "ScalarObjectAttributeImpl"
      [] property_name = "tag" -> "CollectionAttributeImpl"
      [] OTHER -> "none"

\* the primary keys of the rows of the related models
TargetKeys == {1, 2}

\* the entities: the values of the attributes and the attributes that are not
\* loaded
Instances ==
    [title : {<<"a">>}, author : {Null, 1}, tag : SUBSET TargetKeys,
     unloaded : SUBSET Range(PostAttrs)]

\* the properties that are set, and their values
PropertyValues ==
    { <<"title", <<"x">> >>, <<"author", Null>>, <<"author", 2>>, <<"author", 9>>,
      <<"tag", <<>> >>, <<"tag", <<2>> >>, <<"tag", <<1, 9>> >>, <<"bogus", <<"y">> >> }

\* setattr(model_instance, property_name, related): the attribute is loaded
\* from then on
SetAttribute(instance, property_name, related) ==
    LET loaded == [instance EXCEPT !.unloaded = @ \ {property_name}]
    IN  CASE property_name = "title" -> [loaded EXCEPT !.title = related]
          [] property_name = "author" ->
               [loaded EXCEPT !.author = IF related = {} THEN Null
                                         ELSE CHOOSE k \in related : TRUE]
          [] OTHER -> [loaded EXCEPT !.tag = related]

\* faulty variant: an attribute that is not loaded is emitted with a null
serialize_model_nulls(result) ==
    [i \in 1..Len(PostAttrs) |->
        LET field == PostAttrs[i]
            unloaded == field \in result.unloaded
        IN  CASE field = "title" ->
                   [key |-> <<field>>, null |-> unloaded, value |-> {result.title}]
              [] field = "author" ->
                   [key |-> <<"/", field>>, null |-> unloaded \/ result.author = Null,
                    value |-> {result.author}]
              [] OTHER ->
                   [key |-> <<"/", field>>, null |-> unloaded, value |-> result.tag]]

\* serialize_model(result): the keys of the object in the order they are put,
\* each with its value: `value` holds the value of a column, the primary key
\* of a ..1 relationship or the primary keys of a n.. relationship, `null`
\* says that the value is None
serialize_model(result) ==
    LET RECURSIVE go(_, _)
        go(i, object) ==
            IF i > Len(PostAttrs) THEN object
            ELSE LET field == PostAttrs[i]
                 IN  IF field \in result.unloaded THEN go(i + 1, object)
                     ELSE IF PostImpl(field) = "ScalarAttributeImpl"
                     THEN go(i + 1, Append(object,
                             [key |-> <<field>>, null |-> FALSE,
                              value |-> {result.title}]))
                     ELSE IF PostImpl(field) = "CollectionAttributeImpl"
                     THEN go(i + 1, Append(object,
                             [key |-> <<"/", field>>, null |-> FALSE,
                              value |-> result.tag]))
                     ELSE go(i + 1, Append(object,
                             [key |-> <<"/", field>>, null |-> (result.author = Null),
                              value |-> {result.author}]))
    IN  go(1, <<>>)

\* an entity of the session
InitObject ==
    /\ InitService
    /\ input \in [kind : {"instance"}, val : Instances]
    /\ trail = <<>>

\* set_property(model_instance, property_name, value)
SetProperty(property_name, value) ==
    /\ \E set \in {IF PostImpl(property_name) = "none"
                   THEN [err |-> "AttributeError", related |-> {}]
                   ELSE IF PostImpl(property_name) = "ScalarAttributeImpl"
                   THEN [err |-> "none", related |-> value]
                   ELSE relationship_value(PostImpl(property_name), TargetKeys, value)} :
         /\ input' = IF set.err = "none"
                     THEN [input EXCEPT !.val = SetAttribute(@, property_name, set.related)]
                     ELSE input
         /\ reply' = [kind |-> "set_property", property_name |-> property_name,
                      value |-> value, err |-> set.err, instance |-> input.val]
    /\ UNCHANGED <<rights, calls, last, trail, store, session>>

\* serialize_model(result) on the entity
Serialize ==
    /\ reply' = [kind |-> "serialize_model", property_name |-> "", value |-> <<>>,
                 err |-> "none", instance |-> input.val,
                 object |-> serialize_model(input.val)]
    /\ UNCHANGED <<rights, calls, last, input, trail, store, session>>

\* an entity whose properties are set and that is serialized
NextObject ==
    \/ \E pv \in PropertyValues : SetProperty(pv[1], pv[2])
    \/ Serialize

SpecObject == InitObject /\ [][NextObject]_vars

(***************************************************************************)
(* Authorization: C1, C2, C3 (specification Spec)                          *)
(***************************************************************************)
\* the resources a request involves: its base resource unless it is "+" or
\* "-", and the resource of every node of every join-path
Involved(request) ==
    (IF request.resource \in {<<"+">>, <<"-">>} THEN {} ELSE {request.resource})
    \cup UNION { {request.joinpaths[i][j][1] : j \in 1..Len(request.joinpaths[i])} :
                 i \in 1..Len(request.joinpaths) }

\* the roles of a caller: the declared ones and "*"
CallerRoles(for_roles) == Range(for_roles) \cup {"*"}

\* some role of the caller holds the operation on the resource
Permits(operation, resource, for_roles) ==
    \E role \in CallerRoles(for_roles) : operation[1] \in Held(rights, role, resource)

\* some role of the caller holds the operation on some involved resource
RoleCheck(operation, request, for_roles) ==
    \E resource \in Involved(request) : Permits(operation, resource, for_roles)

\* C1: with authorization enabled, authorize permits the operation if and only
\* if some role of roles \cup {"*"} holds it on some involved resource, and
\* otherwise raises the forbidden error (AssertionError).
C1_AuthorizeAnyResource ==
    (last.kind = "authorize" /\ DOMAIN rights # {}) =>
        last.err = IF RoleCheck(last.operation, last.request, last.for_roles)
                   THEN "none" ELSE "AssertionError"

\* C1 witness: a permitted request that involves a resource on which the
\* operation is held and a resource on which no role of the caller holds it.
C1_Witness ==
    /\ last.kind = "authorize"
    /\ DOMAIN rights # {}
    /\ last.err = "none"
    /\ \E permitted, forbidden \in Involved(last.request) :
         /\ Permits(last.operation, permitted, last.for_roles)
         /\ ~Permits(last.operation, forbidden, last.for_roles)

\* a service is given a right by a description that holds at least one
\* operation token
Declares(desc) ==
    \E i \in 1..Len(desc) : \E j \in 1..Len(desc[i][2]) : desc[i][2][j][2] # <<>>

EverDeclared == \E i \in 1..Len(calls) : Declares(calls[i])

\* C2: authorize permits everything as long as no role right has ever been
\* declared; once rights have been declared the role check decides every
\* later call, whatever was revoked since.
C2_OptIn ==
    last.kind = "authorize" =>
        IF EverDeclared
        THEN last.err = IF RoleCheck(last.operation, last.request, last.for_roles)
                        THEN "none" ELSE "AssertionError"
        ELSE last.err = "none"

\* C2 witness: rights were declared, no role holds any operation any more, and
\* authorize denies the request.
C2_Witness ==
    /\ last.kind = "authorize"
    /\ EverDeclared
    /\ \A role \in DOMAIN rights : rights[role] = {}
    /\ last.err = "AssertionError"

\* C3: with {"*": {"*": ["read"]}} as the only declared rights, a read on a
\* catalog resource is permitted for every caller and a create, an update and a
\* delete are denied with the forbidden error.
C3_StarRead ==
    (/\ calls = <<StarRead>>
     /\ last.kind = "authorize"
     /\ last.request.resource \in Range(ModelKeys)) =>
        last.err = IF last.operation = OpRead THEN "none" ELSE "AssertionError"

\* C3 witness: a caller without roles reads "tag" under these rights.
C3_Witness ==
    /\ calls = <<StarRead>>
    /\ last.kind = "authorize"
    /\ last.request.resource = Tag
    /\ last.for_roles = <<>>
    /\ last.operation = OpRead
    /\ last.err = "none"


(***************************************************************************)
(* Role descriptions: C4, C5, C6 (specification SpecRoles)                 *)
(***************************************************************************)
RoleNames == {"*", "user", "admin"}

ResourceNames == {Event, Tag, Star}

\* the token grants the operation letter: "*", or a token without a leading
\* "-" that starts with the letter
TokenGrants(token, op) ==
    \/ token = Star
    \/ token # <<>> /\ token[1] # "-" /\ Lower(token[1]) = op

\* the token revokes the operation letter: "-*", or "-" and a token that
\* starts with the letter
TokenRevokes(token, op) ==
    \/ token = Minus(Star)
    \/ Len(token) >= 2 /\ token[1] = "-" /\ Lower(token[2]) = op

\* the resource key of a description names the resource, "*" naming every
\* resource of the catalog
KeyCovers(key, resource) ==
    IF key = Star THEN resource \in Range(ModelKeys) ELSE key = resource

\* the places <<i, j, k>> of the tokens a description declares for a role on
\* a resource, and the order in which they are written
Places(desc, role, resource) ==
    UNION { UNION { { <<i, j, k>> : k \in 1..Len(desc[i][2][j][2]) } :
                    j \in {n \in 1..Len(desc[i][2]) : KeyCovers(desc[i][2][n][1], resource)} } :
            i \in {n \in 1..Len(desc) : desc[n][1] = role} }

TokenAt(desc, p) == desc[p[1]][2][p[2]][2][p[3]]

WrittenBefore(p, q) ==
    \/ p[1] < q[1]
    \/ p[1] = q[1] /\ p[2] < q[2]
    \/ p[1] = q[1] /\ p[2] = q[2] /\ p[3] < q[3]

\* the operations a description grants / revokes for a role on a resource
GrantedIn(desc, role, resource) ==
    {op \in crud : \E p \in Places(desc, role, resource) :
        TokenGrants(TokenAt(desc, p), op)}

RevokedIn(desc, role, resource) ==
    {op \in crud : \E p \in Places(desc, role, resource) :
        TokenRevokes(TokenAt(desc, p), op)}

\* the operations whose last declaration in the description is a grant
LastGranted(desc, role, resource) ==
    {op \in crud : \E p \in Places(desc, role, resource) :
        /\ TokenGrants(TokenAt(desc, p), op)
        /\ \A q \in Places(desc, role, resource) :
             WrittenBefore(p, q) => ~TokenRevokes(TokenAt(desc, q), op)}

\* the operations whose last declaration in the description is a revocation
LastRevoked(desc, role, resource) ==
    {op \in crud : \E p \in Places(desc, role, resource) :
        /\ TokenRevokes(TokenAt(desc, p), op)
        /\ \A q \in Places(desc, role, resource) :
             WrittenBefore(p, q) => ~TokenGrants(TokenAt(desc, q), op)}

\* C4 as stated: after one add_roles call on a fresh service a role holds on a
\* resource the operations the call grants minus the operations it revokes,
\* whatever the order of the tokens and of the resource keys.
C4_GrantsMinusRevocations ==
    Len(calls) = 1 =>
        \A role \in RoleNames, resource \in ResourceNames :
            Held(rights, role, resource) =
                GrantedIn(calls[1], role, resource) \ RevokedIn(calls[1], role, resource)

\* C4 amended: after one add_roles call on a fresh service a role holds on a
\* resource the operations whose last declaration in the call, in the order
\* the resource keys and the tokens are written, is a grant.
C4_LastDeclarationWins ==
    Len(calls) = 1 =>
        \A role \in RoleNames, resource \in ResourceNames :
            Held(rights, role, resource) = LastGranted(calls[1], role, resource)

\* C4 witness: one call that revokes an operation and then grants it again;
\* the operation is held.
C4_Witness ==
    /\ Len(calls) = 1
    /\ \E role \in RoleNames, resource \in ResourceNames :
         \E op \in RevokedIn(calls[1], role, resource) : op \in Held(rights, role, resource)

\* C5 as stated: when a call grants an operation to (role, resource) and a
\* later call revokes it, the role does not hold it after the later call.
C5_LaterRevocationWins ==
    \A role \in RoleNames, resource \in ResourceNames, op \in crud :
        (/\ Len(calls) >= 2
         /\ \E i \in 1..(Len(calls) - 1) : op \in GrantedIn(calls[i], role, resource)
         /\ op \in RevokedIn(calls[Len(calls)], role, resource)) =>
            op \notin Held(rights, role, resource)

\* C5 amended: when a call grants an operation to (role, resource) and the
\* last declaration of a later call for that operation is a revocation, the
\* role does not hold it after the later call.
C5_LaterLastRevocationWins ==
    \A role \in RoleNames, resource \in ResourceNames, op \in crud :
        (/\ Len(calls) >= 2
         /\ \E i \in 1..(Len(calls) - 1) : op \in GrantedIn(calls[i], role, resource)
         /\ op \in LastRevoked(calls[Len(calls)], role, resource)) =>
            op \notin Held(rights, role, resource)

\* C5 witness: the first call leaves delete held by "user" on "event", the
\* second call revokes it, and it is no longer held.
C5_Witness ==
    /\ Len(calls) = 2
    /\ "d" \in LastGranted(calls[1], "user", Event)
    /\ "d" \in LastRevoked(calls[2], "user", Event)
    /\ "d" \notin Held(rights, "user", Event)

\* a token without its leading "-", if it has one
Undash(token) == IF token # <<>> /\ token[1] = "-" THEN Tail(token) ELSE token

\* the operation tokens of a description
Tokens(desc) ==
    UNION { UNION { Range(desc[i][2][j][2]) : j \in 1..Len(desc[i][2]) } :
            i \in 1..Len(desc) }

\* invalid as C6 states it: not "*", not "-*", and not create, read, update or
\* delete after an optional "-"
NotAnOperation(token) ==
    token \notin {Star, Minus(Star)} /\ Undash(token) \notin Operations

\* invalid as add_roles tests it: not "*", not "-*", and after an optional "-"
\* nothing, or a first character that is none of c, r, u, d in either case
NotAnOperationLetter(token) ==
    /\ token \notin {Star, Minus(Star)}
    /\ Undash(token) = <<>> \/ Lower(Undash(token)[1]) \notin crud

\* C6 as stated: an add_roles call with a token that is not "*", "-*" or
\* [-]create/read/update/delete fails and leaves the rights table as it was.
C6_InvalidOperationFails ==
    [][(last'.kind = "add_roles" /\ (\E token \in Tokens(last'.desc) : NotAnOperation(token))) =>
          (last'.err # "none" /\ rights' = rights)]_vars

\* C6 amended: an add_roles call with a token that is not "*" or "-*" and
\* whose first character after an optional "-" is missing or is none of
\* c, r, u, d (in either case) fails and leaves the rights table as it was.
C6_InvalidLetterFails ==
    [][(last'.kind = "add_roles" /\ (\E token \in Tokens(last'.desc) : NotAnOperationLetter(token))) =>
          (last'.err \in {"ValueError", "IndexError"} /\ rights' = rights)]_vars

\* C6 witness: a call that grants an operation before its invalid token has
\* failed on a service that has rights, and the operation is not held.
C6_Witness ==
    /\ last.kind = "add_roles"
    /\ last.err = "ValueError"
    /\ DOMAIN rights # {}
    /\ \E role \in RoleNames, resource \in ResourceNames :
         \E op \in GrantedIn(last.desc, role, resource) :
             op \notin Held(rights, role, resource)


(***************************************************************************)
(* URI codec: C7, C8, C9, C10 (specification SpecCodec)                    *)
(***************************************************************************)
\* two requests are equivalent: identical resource, identifier and limit, and
\* the same fields, filters and join-paths as sets
Equiv(a, b) ==
    /\ a.resource = b.resource
    /\ a.id = b.id
    /\ a.limit = b.limit
    /\ Range(a.fields) = Range(b.fields)
    /\ Range(a.filters) = Range(b.filters)
    /\ Range(a.joinpaths) = Range(b.joinpaths)

\* no filter and no join-path is written twice
NoDuplicates(request) ==
    /\ Cardinality(Range(request.filters)) = Len(request.filters)
    /\ Cardinality(Range(request.joinpaths)) = Len(request.joinpaths)

\* C7: for a request without duplicate filters or join-paths,
\* decode(encode(request)) is a request equivalent to it.
C7_RoundTrip ==
    (input.kind = "request" /\ NoDuplicates(input.val) /\ Len(trail) >= 3) =>
        (trail[3].kind = "request" /\ Equiv(trail[3].val, input.val))

\* C8: with F = decode o encode, F(F(r)) is equivalent to F(r) for every
\* request r that encode accepts.
C8_Idempotent ==
    (input.kind = "request" /\ Len(trail) >= 5) =>
        (trail[5].kind = "request" /\ Equiv(trail[5].val, trail[3].val))

\* the input URI exceeds an arity of the grammar: more than three segments in
\* the path, more than two components in a field, more than three in a filter
\* or a join-node
ExceedsArity(u) ==
    \/ u.segments > 3
    \/ u.segments = 3 /\ \E i \in 1..Len(u.fields) : Len(u.fields[i]) > 2
    \/ \E i \in 1..Len(u.args) : Len(u.args[i].rfc) > 3

\* C9: decode fails with the grammar error (ValueError) on a URI that exceeds
\* an arity of the grammar, and returns a request on every other URI.
C9_GrammarError ==
    (input.kind = "uri" /\ Len(trail) >= 2) =>
        IF ExceedsArity(input.val)
        THEN trail[2].kind = "error" /\ trail[2].val = "ValueError"
        ELSE trail[2].kind = "request"

\* a component of a descriptor, or its default when it is empty
Dflt(component, default) == IF component = <<>> THEN default ELSE component

\* what C10 states for the components of a filter key
ExpectFilter(c) ==
    IF Len(c) = 1 THEN <<None, Dflt(c[1], <<"id">>), <<"eq">> >>
    ELSE IF Len(c) = 2 THEN <<None, Dflt(c[1], <<"id">>), Dflt(c[2], <<"eq">>)>>
    ELSE <<Dflt(c[1], None), Dflt(c[2], <<"id">>), Dflt(c[3], <<"eq">>)>>

\* what C10 states for the components of a join-node
ExpectNode(c) ==
    IF Len(c) = 1 THEN <<Dflt(c[1], None), <<"id">>, <<"eq">> >>
    ELSE IF Len(c) = 2 THEN <<Dflt(c[1], None), Dflt(c[2], <<"id">>), <<"eq">> >>
    ELSE <<Dflt(c[1], None), Dflt(c[2], <<"id">>), Dflt(c[3], <<"eq">>)>>

\* (resource, field, comparator) of a decoded filter or join-node
Rfc(t) == <<t[1], t[2], t[3]>>

IsRead == reply.kind = "read" /\ reply.decoded

\* the request of the last call
Request == reply.request

Resourceless(request) == request.resource \in {<<"+">>, <<"-">>}

ConcreteId(id) == Truthy(id) /\ id \notin Range(reserved_ids)

\* a resourceless request that read_resource refuses
Invalid(request) ==
    Resourceless(request) /\ (request.joinpaths = <<>> \/ ConcreteId(request.id))

\* authorization refuses the read of the last call
Forbidden == authorize(rights, OpRead, Request, reply.for_roles).err # "none"

\* C11 as stated: a read of a resourceless request with zero join-paths or
\* with an identifier that is neither absent nor reserved is rejected as a bad
\* request (ValueError) and no query is executed, whether or not authorization
\* is enabled.
C11_ResourcelessRejected ==
    (IsRead /\ Invalid(Request)) => (reply.err = "ValueError" /\ ~reply.executed)

\* C11: such a read is always rejected and no query is executed: as forbidden
\* (AssertionError) when authorization is enabled and does not permit the
\* read, which is always so with zero join-paths, and as a bad request
\* (ValueError) otherwise.
C11_ResourcelessRefused ==
    (IsRead /\ Invalid(Request)) =>
        /\ ~reply.executed
        /\ reply.err = IF Forbidden THEN "AssertionError" ELSE "ValueError"
        /\ (DOMAIN rights # {} /\ Request.joinpaths = <<>>) => Forbidden

\* a permitted resourceless read with a concrete identifier on a service with
\* roles, refused as a bad request
C11_Witness ==
    /\ IsRead
    /\ Invalid(Request)
    /\ DOMAIN rights # {}
    /\ reply.err = "ValueError"
    /\ ~reply.executed

\* the last call was a read that authorization let through to read_resource
ReadResource == IsRead /\ reply.err # "AssertionError"

\* the number of nodes of the join-paths before the i-th
NodesBefore(joinpaths, i) ==
    LET RECURSIVE sum(_)
        sum(k) == IF k >= i THEN 0 ELSE Len(joinpaths[k]) + sum(k + 1)
    IN  sum(1)

\* every node of every join-path names a resource of the catalog
NamesModels(joinpaths) ==
    \A i \in 1..Len(joinpaths) : \A j \in 1..Len(joinpaths[i]) :
        joinpaths[i][j][1] \in Range(ModelKeys)

\* C12: the entities read_resource queries are the base entity alone for a
\* concrete resource; for "+" the entity of every node of every join-path, in
\* path order, duplicates kept; for "-" the entity of the first node of each
\* join-path, in declaration order.
C12_QueriedEntities ==
    (ReadResource /\ ~Invalid(Request) /\ NamesModels(Request.joinpaths)) =>
        LET models == reply.query.models
            joinpaths == Request.joinpaths
        IN  IF Request.resource = <<"+">>
            THEN /\ Len(models) = NodesBefore(joinpaths, Len(joinpaths) + 1)
                 /\ \A i \in 1..Len(joinpaths) : \A j \in 1..Len(joinpaths[i]) :
                      models[NodesBefore(joinpaths, i) + j] = joinpaths[i][j][1]
            ELSE IF Request.resource = <<"-">>
            THEN /\ Len(models) = Len(joinpaths)
                 /\ \A i \in 1..Len(joinpaths) : models[i] = joinpaths[i][1][1]
            ELSE Request.resource \in Range(ModelKeys) => models = <<Request.resource>>

\* a "+" read of two join-paths that name event twice
C12_Witness ==
    /\ ReadResource
    /\ Request.resource = <<"+">>
    /\ Len(Request.joinpaths) = 2
    /\ reply.query.models = <<Tag, Event, Event>>

\* C13 as stated: every join read_resource emits for a join-path node is an
\* outer join when the resource selector of the request is "+" and an inner
\* join for every other selector, whatever the filters, fields, join-paths
\* and limit of the request.
C13_JoinKind ==
    ReadResource =>
        \A i \in 1..Len(reply.query.joins) :
            reply.query.joins[i].outer = (Request.resource = <<"+">>)

\* the number of rows the request of the last call matches with the i-th of
\* its join-paths alone
PathCount(i) ==
    Cardinality(Matched(session,
        BuildQuery(Request.resource, Request.id, Request.fields, Request.filters,
                   <<Request.joinpaths[i]>>, <<>>, Request.limit)))

\* the product of the row counts of the join-paths
PathProduct ==
    LET RECURSIVE prod(_)
        prod(i) == IF i > Len(Request.joinpaths) THEN 1 ELSE PathCount(i) * prod(i + 1)
    IN  prod(1)

\* the resources the nodes of a join-path name
PathResources(joinpath) == {joinpath[j][1] : j \in 1..Len(joinpath)}

\* no resource is named by two join-paths
DisjointPaths(joinpaths) ==
    \A i, j \in 1..Len(joinpaths) :
        i # j => PathResources(joinpaths[i]) \cap PathResources(joinpaths[j]) = {}

\* the last call is a resourceless count without filters and without limit
ResourcelessCount ==
    /\ ReadResource
    /\ Resourceless(Request)
    /\ reply.shape = "count"
    /\ Request.filters = <<>>
    /\ Request.limit = None

HasCount(fields) == \E i \in 1..Len(fields) : fields[i][2] = <<":count">>

\* the request of the last call with ":count" as its only field, without order
\* and with the identifier "+" unless it is concrete
CountAlone ==
    LET id == IF ConcreteId(Request.id) THEN Request.id ELSE <<"+">>
        fields == << <<None, <<":count">> >> >>
        query == BuildQuery(Request.resource, id, fields, Request.filters,
                            Request.joinpaths, <<>>, Request.limit)
    IN  read_resource(Request.resource, id, fields, Request.filters,
                      Request.joinpaths, <<>>, Request.limit,
                      CHOOSE returned \in Returned(session, query) : TRUE)

\* C15: when a field of a read is ":count", read_resource returns only the
\* number of rows of the query, without ordering, projection or serialization,
\* and its outcome is that of the same request with ":count" alone, without
\* order and with another absent or reserved identifier.
C15_CountShortCircuit ==
    (ReadResource /\ HasCount(Request.fields)) =>
        /\ reply.err = CountAlone.err
        /\ reply.shape = CountAlone.shape
        /\ reply.count = CountAlone.count
        /\ reply.err = "none" =>
             /\ reply.shape = "count"
             /\ reply.results = {}
             /\ ~reply.serialized
             /\ reply.query.order_by = <<>>
             /\ reply.query.projection = "none"
             /\ LET matched == Cardinality(Matched(session, reply.query))
                IN  reply.count = IF Request.limit = None THEN matched
                                  ELSE Min(ToInt(Request.limit), matched)

\* a count of the tags asked with identifier "-", an order and a field that
\* is no attribute
C15_Witness ==
    /\ ReadResource
    /\ HasCount(Request.fields)
    /\ Len(Request.fields) = 2
    /\ Request.id = <<"-">>
    /\ reply.order # <<>>
    /\ reply.shape = "count"
    /\ reply.count = 2

\* the read of the last call ran its query and the database accepted it
Executed == ReadResource /\ reply.executed /\ StatementError(reply.query) = "none"

\* the results of the query of the last call without its limit
AllResults == Results(reply.query, Matched(session, reply.query))

\* C16 as stated: a read whose identifier is "+" always yields a list, and a
\* read whose identifier is "-" always yields exactly one record or fails with
\* a not-found or multiple-results error, never a list and never a silently
\* chosen row.
C16_ShapeByIdentifier ==
    Executed =>
        /\ (Request.id = <<"+">> /\ reply.err = "none") => reply.shape = "list"
        /\ Request.id = <<"-">> =>
             /\ Cardinality(AllResults) = 0 => reply.err = "NoResultFound"
             /\ Cardinality(AllResults) > 1 => reply.err = "MultipleResultsFound"
             /\ reply.err = "none" => (reply.shape = "record" /\ reply.results = AllResults)

\* C16: a read without the field ":count" yields a list when its identifier
\* is "+"; when its identifier is "-" it yields the one result of its query,
\* fails with NoResultFound when the query has no result and with
\* MultipleResultsFound when it has several, where a limit caps the results of
\* the query at rows the database chooses.  With the field ":count" both yield
\* the count.
C16_ShapeByIdentifierUnlessCount ==
    Executed =>
        /\ (Request.id \in {<<"+">>, <<"-">>} /\ HasCount(Request.fields)) =>
             reply.shape = "count"
        /\ (Request.id = <<"+">> /\ ~HasCount(Request.fields) /\ reply.err = "none") =>
             reply.shape = "list"
        /\ (Request.id = <<"-">> /\ ~HasCount(Request.fields)) =>
             /\ reply.err = "none" =>
                  /\ reply.shape = "record"
                  /\ Cardinality(reply.results) = 1
                  /\ reply.results \subseteq AllResults
             /\ Request.limit = None =>
                  /\ Cardinality(AllResults) = 0 => reply.err = "NoResultFound"
                  /\ Cardinality(AllResults) > 1 => reply.err = "MultipleResultsFound"
                  /\ reply.err = "none" => reply.results = AllResults

\* a read with identifier "-" whose query has two results fails
C16_Witness ==
    /\ Executed
    /\ Request.id = <<"-">>
    /\ ~HasCount(Request.fields)
    /\ Request.limit = None
    /\ Cardinality(AllResults) = 2
    /\ reply.err = "MultipleResultsFound"

\* the last call read a URI without identifier and without the field ":count"
AbsentId == Executed /\ ~Truthy(Request.id) /\ ~HasCount(Request.fields)

\* C17 as stated: a read whose URI carries no identifier is shaped like
\* identifier "-": it returns a single serialized record, not a list.
C17_AbsentIsSingle == (AbsentId /\ reply.err = "none") => reply.shape = "record"

\* C17: a read whose URI carries no identifier is shaped like identifier "+":
\* it returns the list of the results of its query, whatever their number, and
\* never fails for having no result or several.
C17_AbsentIsList ==
    AbsentId =>
        /\ reply.err \notin {"NoResultFound", "MultipleResultsFound"}
        /\ reply.err = "none" =>
             /\ reply.shape = "list"
             /\ Request.limit = None => reply.results = AllResults

\* the read of "tag" returns the list of the two tags
C17_Witness ==
    /\ AbsentId
    /\ Request.filters = <<>>
    /\ reply.shape = "list"
    /\ Cardinality(reply.results) = 2

\* the filters and the join-nodes with a value of a request, as the
\* (resource, field, comparator, value) they declare
Declared(request) ==
    Range(request.filters)
    \cup UNION {{request.joinpaths[i][j] : j \in {k \in 1..Len(request.joinpaths[i]) :
                                                  Truthy(request.joinpaths[i][k][4])}} :
                i \in 1..Len(request.joinpaths)}

\* the filters and join-nodes of a request whose resource component is absent
Unresolved(request) == {d \in Declared(request) : ~Truthy(d[1])}

\* C18 as stated: a filter or a join-node whose resource component is absent
\* is resolved against the base entity when the request has a concrete base
\* resource, and the read fails with a bad request error (ValueError) when
\* there is no base.
C18_AbsentResourceResolved ==
    (ReadResource /\ ~Invalid(Request) /\ Unresolved(Request) # {}) =>
        IF Resourceless(Request) THEN reply.err = "ValueError"
        ELSE \A d \in Unresolved(Request) :
               \E i \in 1..Len(reply.query.wheres) :
                  /\ reply.query.wheres[i].resource = Request.resource
                  /\ reply.query.wheres[i].attr = Attr(d[2])
                  /\ reply.query.wheres[i].comparator = Attr(d[3])
                  /\ reply.query.wheres[i].value = d[4]


(***************************************************************************)
(* Writes: C19, C20 (specification SpecWrite)                              *)
(***************************************************************************)
\* the primary keys of a resource
Keys(db, resource) == {row.id : row \in Table(db, resource)}

\* the step is an update or a delete that reaches update_resource or
\* delete_resource: its URI decodes and authorization lets it through
WriteStep ==
    /\ reply'.kind \in {"update", "delete"}
    /\ reply'.decoded
    /\ reply'.err # "AssertionError"

\* C19: update_resource and delete_resource raise the missing-identifier
\* error (ValueError) before anything is read, changed or committed when the
\* identifier is absent, "+" or "-"; with a concrete identifier delete_resource
\* removes the one entity of the resource with that primary key, and no other
\* entity, or fails when there is none.
C19_ConcreteIdentifier ==
    [][WriteStep =>
        LET resource == reply'.request.resource
            id == reply'.request.id
        IN  /\ ~ConcreteId(id) =>
                 /\ reply'.err = "ValueError"
                 /\ ~reply'.executed
                 /\ store' = store
                 /\ session' = session
            /\ (ConcreteId(id) /\ reply'.kind = "delete" /\ resource \in Range(ModelKeys)) =>
                 IF IsInt(id) /\ ToInt(id) \in Keys(session, resource)
                 THEN /\ reply'.err = "none"
                      /\ Keys(session', resource) = Keys(session, resource) \ {ToInt(id)}
                      /\ \A other \in Range(ModelKeys) \ {resource} :
                           Table(session', other) = Table(session, other)
                      /\ \A row \in Table(session', resource) :
                           row \in Table(session, resource)
                      /\ store' = session'
                 ELSE /\ reply'.err = "NoResultFound"
                      /\ store' = store
                      /\ session' = session]_vars

\* event 1 has been deleted: events 2 and 3 and both tags remain
C19_Witness ==
    /\ reply.kind = "delete"
    /\ reply.err = "none"
    /\ reply.request.id = <<"1">>
    /\ Keys(store, Event) = {2, 3}
    /\ Keys(store, Tag) = {1, 2}

\* the keys of a record that name no attribute of the model of the resource
UnknownKeys(resource, record) ==
    {i \in 1..Len(record) :
        record[i][1] \notin Scalars(resource) \cup Relationships(resource)}

\* C20 as stated: Service.update drops the record keys that are not attributes
\* of the model without an error, and applies and commits every other key of
\* the record, whatever the field list of the URI.
C20_UnknownKeysIgnored ==
    LET resource == reply.request.resource
        id == reply.request.id
        record == reply.record
    IN  (/\ reply.kind = "update"
         /\ reply.decoded
         /\ reply.err # "AssertionError"
         /\ resource \in Range(ModelKeys)
         /\ ConcreteId(id)
         /\ IsInt(id)
         /\ ToInt(id) \in Keys(session, resource)
         /\ UnknownKeys(resource, record) # {}) =>
            /\ reply.err = "none"
            /\ \A i \in 1..Len(record) :
                 (/\ record[i][1] \in Scalars(resource)
                  /\ \A j \in (i + 1)..Len(record) : record[j][1] # record[i][1]) =>
                     Column(RowOf(store, resource, ToInt(id)), record[i][1]) = record[i][2]

(***************************************************************************)
(* Reads: C24, C26, C23, C28 (specification SpecRead)                      *)
(***************************************************************************)
\* C24: the limit is applied before the count: a read with the field ":count"
\* reports the number of rows of the limited query, min(L, rows matched by the
\* filters and the join-paths) under _limit=L, and the number of all the
\* matched rows without a limit.
C24_LimitBeforeCount ==
    (ReadResource /\ HasCount(Request.fields) /\ reply.err = "none") =>
        LET matched == Cardinality(Matched(session, reply.query))
        IN  /\ reply.shape = "count"
            /\ Request.limit = None => reply.count = matched
            /\ Request.limit # None =>
                 /\ IsInt(Request.limit)
                 /\ reply.query.limit = Request.limit
                 /\ reply.count = Min(ToInt(Request.limit), matched)

\* the tags are counted under _limit=1: two tags match, the count is 1
C24_Witness ==
    /\ ReadResource
    /\ HasCount(Request.fields)
    /\ Request.resource = Tag
    /\ Request.limit = <<"1">>
    /\ reply.err = "none"
    /\ Cardinality(Matched(session, reply.query)) = 2
    /\ reply.count = 1

\* str(v) of the value of a column
Text(attr, v) ==
    IF attr \in IntegerColumns THEN <<CHOOSE d \in Digits : DigitValue(d) = v>> ELSE v

\* the comma-split list of the value of a filter, empty for an empty value
SplitList(value) == IF value = <<>> THEN {} ELSE Range(Split(value, ","))

\* the last call read the list of a resource under one "in" or "notin" filter
\* on a scalar attribute of the resource, and nothing else
MembershipRead ==
    /\ ReadResource
    /\ Request.resource \in Range(ModelKeys)
    /\ Request.id = <<"+">>
    /\ Request.fields = <<>>
    /\ Request.joinpaths = <<>>
    /\ Request.limit = None
    /\ reply.order = <<>>
    /\ Len(Request.filters) = 1
    /\ Request.filters[1][1] = None
    /\ Attr(Request.filters[1][2]) \in Scalars(Request.resource)
    /\ Attr(Request.filters[1][3]) \in {"in", "notin"}

\* C26 as stated: a filter with comparator "in" (resp. "notin") and value
\* "v1,...,vn" selects exactly the rows whose field is (resp. is not) a member
\* of the comma-split list, for every attribute type, integer attributes
\* included, and every n >= 1; an empty value selects against the empty list.
C26_MembershipOfSplitList ==
    MembershipRead =>
        LET f == Request.filters[1]
            member(row) == Text(Attr(f[2]), Column(row, Attr(f[2]))) \in SplitList(f[4])
        IN  /\ reply.err = "none"
            /\ reply.results =
                 {<<row.id>> : row \in {r \in Table(session, Request.resource) :
                                          member(r) <=> (Attr(f[3]) = "in")}}

\* the query of the last read went through the filters, the join-paths and,
\* unless it is a count, the order and the projection without an error
Built == ReadResource /\ reply.query.err = "none" /\ reply.query.models # <<>>

\* C28 as stated: the resource selector that read_resource uses for the join
\* kind, the default-order lookup and the projection mode is the selector of
\* the request; processing the filters never changes it: every join is outer
\* exactly when the selector is "+", and the projection is a tuple of labeled
\* columns exactly when the selector is "+" or "-".
C28_SelectorOfRequest ==
    Built =>
        /\ reply.query.resource = Request.resource
        /\ \A i \in 1..Len(reply.query.joins) :
             reply.query.joins[i].outer <=> (Request.resource = <<"+">>)
        /\ ~reply.query.counted =>
             (reply.query.projection = "columns" <=> Resourceless(Request))

\* the joins the claim expects of one join-path: none for the first node of a
\* resourceless request, from the base entity for the first node of any other,
\* from the node before for every later node
ChainOf(resource, joinpath) ==
    LET skip == IF resource \in {<<"+">>, <<"-">>} THEN 1 ELSE 0
    IN  [k \in 1..(Len(joinpath) - skip) |->
            <<IF k + skip = 1 THEN resource ELSE joinpath[k + skip - 1][1],
              joinpath[k + skip][1]>>]

\* the chains of the join-paths, each started anew, in the order of the paths
Chains(request) ==
    Concat([i \in 1..Len(request.joinpaths) |->
              ChainOf(request.resource, request.joinpaths[i])])

PropertySet == reply.kind = "set_property" /\ reply.err = "none"

\* C21: set_property on a ..1 relationship resolves the primary key it is
\* given to the entity of the related model with that key, and a null value
\* clears the relationship; on a n.. relationship the collection afterwards is
\* exactly the set of the related entities whose primary key is in the given
\* list, whatever the collection held before; no other attribute changes.
C21_RelationshipSet ==
    PropertySet =>
        /\ PostImpl(reply.property_name) = "ScalarObjectAttributeImpl" =>
             /\ input.val.author = reply.value
             /\ reply.value # Null => reply.value \in TargetKeys
             /\ input.val.tag = reply.instance.tag
        /\ PostImpl(reply.property_name) = "CollectionAttributeImpl" =>
             /\ input.val.tag = {k \in TargetKeys : k \in Range(reply.value)}
             /\ input.val.author = reply.instance.author

\* the collection held {1} and was set with the list [2]: it holds {2}
C21_Witness ==
    /\ PropertySet
    /\ reply.property_name = "tag"
    /\ reply.instance.tag = {1}
    /\ reply.value = <<2>>
    /\ input.val.tag = {2}

\* the ..1 relationship held entity 1 and was set with null: it is cleared
C21_WitnessCleared ==
    /\ PropertySet
    /\ reply.property_name = "author"
    /\ reply.instance.author = 1
    /\ reply.value = Null
    /\ input.val.author = Null

\* the key serialize_model is to emit for an attribute
KeyOf(field) ==
    IF PostImpl(field) = "ScalarAttributeImpl" THEN <<field>> ELSE <<"/", field>>

\* the entries of the object under a key
Emitted(object, key) == {i \in 1..Len(object) : object[i].key = key}

\* C22: serialize_model emits every loaded scalar attribute under its own
\* name, a loaded n.. relationship as the primary keys of the related entities
\* under "/" + name, a loaded ..1 relationship as the related primary key, or
\* null, under "/" + name, and no key at all, not even with a null value, for
\* an attribute that is not loaded.
C22_LoadedAttributesOnly ==
    reply.kind = "serialize_model" =>
        LET object == reply.object
            result == reply.instance
        IN  /\ \A i \in 1..Len(object) : \E field \in Range(PostAttrs) :
                 object[i].key = KeyOf(field)
            /\ \A field \in Range(PostAttrs) :
                 /\ Emitted(object, <<field>>) # {} => KeyOf(field) = <<field>>
                 /\ field \in result.unloaded => Emitted(object, KeyOf(field)) = {}
                 /\ field \notin result.unloaded =>
                      /\ Cardinality(Emitted(object, KeyOf(field))) = 1
                      /\ \A i \in Emitted(object, KeyOf(field)) :
                           CASE field = "title" ->
                                  ~object[i].null /\ object[i].value = {result.title}
                             [] field = "author" ->
                                  IF result.author = Null THEN object[i].null
                                  ELSE ~object[i].null /\ object[i].value = {result.author}
                             [] OTHER ->
                                  ~object[i].null /\ object[i].value = result.tag

\* an entity with two tags whose ..1 relationship is not loaded: the object has
\* the keys "title" and "/tag"
C22_Witness ==
    /\ reply.kind = "serialize_model"
    /\ reply.instance.unloaded = {"author"}
    /\ reply.instance.tag = {1, 2}
    /\ Len(reply.object) = 2
    /\ reply.object[1].key = <<"title">>
    /\ reply.object[2].key = <<"/", "tag">>
    /\ reply.object[2].value = {1, 2}

(***************************************************************************)
(* Writes: C25, C27, C29 (specification SpecStore)                         *)
(***************************************************************************)
\* the operation a call of the service authorizes
OperationOf(kind) ==
    IF kind = "create" THEN OpCreate
    ELSE IF kind = "update" THEN OpUpdate
    ELSE IF kind = "delete" THEN OpDelete
    ELSE OpRead

\* the step is a create, an update or a delete whose URI decodes and that the
\* role check denies: authorization is enabled and no role of the caller holds
\* the operation on any resource the request involves
DeniedStep ==
    /\ reply'.kind \in {"create", "update", "delete"}
    /\ reply'.decoded
    /\ DOMAIN rights # {}
    /\ ~RoleCheck(OperationOf(reply'.kind), reply'.request, reply'.for_roles)

\* C25: create, update and delete authorize after decoding and before any
\* access to the store: when the operation is denied the call raises the
\* forbidden error, no entity is created, modified or deleted, no query is
\* executed and nothing is committed.
C25_DeniedBeforeStore ==
    [][DeniedStep =>
         /\ reply'.err = "AssertionError"
         /\ ~reply'.executed
         /\ session' = session
         /\ store' = store]_vars

\* a create of an event by a caller whose roles write tags only is denied and
\* the events are those of before
C25_Witness ==
    /\ reply.kind = "create"
    /\ reply.err = "AssertionError"
    /\ reply.request.resource = Event
    /\ reply.request.joinpaths = <<>>
    /\ ~reply.executed
    /\ store = InitialStore
    /\ session = InitialStore

\* the step is a create, an update or a delete, under enabled authorization,
\* that changes the session or the committed store
MutatingStep ==
    /\ reply'.kind \in {"create", "update", "delete"}
    /\ reply'.decoded
    /\ DOMAIN rights # {}
    /\ session' # session \/ store' # store

\* C27 as stated: with authorization enabled, update (resp. delete, create)
\* changes an entity of resource R only if some role of the caller's roles or
\* "*" holds the update (resp. delete, create) right on R itself; a right held
\* only on another resource that the URI names in a join-path does not suffice.
C27_RightOnResourceItself ==
    [][MutatingStep =>
         Permits(OperationOf(reply'.kind), reply'.request.resource,
                 reply'.for_roles)]_vars

\* create_resource, update_resource or delete_resource of a call, on a database
WriteOn(db, kind, request, record) ==
    IF kind = "create" THEN create_resource(db, request.resource, record)
    ELSE IF kind = "update" THEN update_resource(db, request.resource, request.id, record)
    ELSE delete_resource(db, request.resource, request.id)

\* the step is a create, an update or a delete that authorization lets through
StoreStep ==
    /\ reply'.kind \in {"create", "update", "delete"}
    /\ reply'.decoded
    /\ reply'.err # "AssertionError"

\* C29 as stated: when update or create fails while it applies the pairs of
\* the record, none of the values of the record is ever persisted, neither by
\* the failing call nor by the commit of a later successful create, update or
\* delete on the same session: a call that fails leaves the committed store as
\* it was, and a call that succeeds commits its own changes to the committed
\* store and nothing else.
C29_FailedValuesNeverPersisted ==
    [][StoreStep =>
         LET written == WriteOn(store, reply'.kind, reply'.request, reply'.record)
         IN  store' = IF written.committed THEN written.db ELSE store]_vars

(***************************************************************************)
(* Revocations: C30 (specification Spec)                                   *)
(***************************************************************************)
\* the description declares tokens, and every one of them is a revocation
RevocationOnly(desc) ==
    /\ Tokens(desc) # {}
    /\ \A token \in Tokens(desc) : token # <<>> /\ token[1] = "-"

\* the description revokes the operation for a role of the caller on a
\* resource the request involves
RevokedFor(desc, operation, request, for_roles) ==
    \E role \in CallerRoles(for_roles), resource \in Involved(request) :
        operation[1] \in RevokedIn(desc, role, resource)

\* the step is an add_roles call of revocations only that succeeds
RevocationStep ==
    /\ last'.kind = "add_roles"
    /\ last'.err = "none"
    /\ RevocationOnly(last'.desc)

\* C30 as stated: an add_roles call that contains only revocations never turns
\* a request that authorize permitted before the call into a denied one,
\* except for the operations it revokes on the (role, resource) pairs it
\* names; on a service without declared rights it does not make authorize
\* deny operations or resources that it does not mention.
C30_RevocationOnlyDeniesNothingElse ==
    [][RevocationStep =>
         \A operation \in Operations, request \in AuthRequests, for_roles \in RoleLists :
            (/\ authorize(rights, operation, request, for_roles).err = "none"
             /\ ~RevokedFor(last'.desc, operation, request, for_roles)) =>
                authorize(rights', operation, request, for_roles).err = "none"]_vars

=============================================================================
